---- MODULE Spec2Model ----
(***************************************************************************)
(* Voice recorder: recording / playback lifecycle of                       *)
(*   src/hooks/useAudioRecorder.ts, src/hooks/useAudioPlayer.ts,           *)
(*   src/services/AudioService.ts and the two screens of                   *)
(*   src/app/(tabs)/recordings.tsx.                                        *)
(*                                                                         *)
(* Strings are sequences of one-character strings, so that split, replace, *)
(* endsWith, Number and parseInt are computed and not assumed.  A value    *)
(* that may be null is a sequence of length 0 or 1.  A JavaScript number   *)
(* is a record [nan, val]: NaN is [nan |-> TRUE, val |-> 0].               *)
(***************************************************************************)
EXTENDS Integers, Sequences, FiniteSets, Bags, TLC

\* ------------------------------------------------------------------ bounds
\* Date.now() ranges over T0..MaxNow (a window of the millisecond clock).
T0 == 8
MaxNow == 9
\* Native handles (Audio.Recording / Audio.Sound objects) created in one run.
MaxHandles == 1
\* Asynchronous calls in flight at once.
MaxTasks == 2
\* Native Audio.Sound objects created in one run.
MaxSounds == 2
\* Largest timestamp / duration drawn for the filename codec.
MaxField == 11
\* Largest positionMillis / durationMillis a playback status reports.
MaxPosition == 1
\* Seconds the RecordingTimer counts.
MaxSeconds == 1

\* ------------------------------------------------------------------ values
Null == <<>>
Some(x) == <<x>>
Val(o) == o[1]

Num(n) == [nan |-> FALSE, val |-> n]
NaN == [nan |-> TRUE, val |-> 0]

\* ------------------------------------------------------------------ strings

WavExt == <<".", "w", "a", "v">>
Delim == "_"

DigitChars == <<"0", "1", "2", "3", "4", "5", "6", "7", "8", "9">>
IsDigit(c) == \E i \in 1..10 : DigitChars[i] = c
DigitVal(c) == (CHOOSE i \in 1..10 : DigitChars[i] = c) - 1
AllDigits(s) == \A i \in 1..Len(s) : IsDigit(s[i])

\* Number.prototype.toString() of a non-negative integer.
RECURSIVE NumToString(_)
NumToString(n) ==
  IF n < 10 THEN <<DigitChars[n + 1]>>
  ELSE NumToString(n \div 10) \o <<DigitChars[(n % 10) + 1]>>

\* The value of a non-empty string of decimal digits.
RECURSIVE DigitsValue(_)
DigitsValue(s) ==
  IF Len(s) = 0 THEN 0
  ELSE 10 * DigitsValue(SubSeq(s, 1, Len(s) - 1)) + DigitVal(s[Len(s)])

\* Number(s) over the characters that occur in file names here (digits,
\* letters, '_' and the '.' of an extension): the empty string is 0, a string
\* of digits is its value, anything else is NaN.
Number(s) ==
  IF Len(s) = 0 THEN Num(0)
  ELSE IF AllDigits(s) THEN Num(DigitsValue(s))
  ELSE NaN

\* The longest prefix of s made of digits.
RECURSIVE DigitPrefix(_)
DigitPrefix(s) ==
  IF Len(s) = 0 \/ ~IsDigit(s[1]) THEN <<>>
  ELSE <<s[1]>> \o DigitPrefix(Tail(s))

\* parseInt(s): the leading digits, NaN when there are none.
ParseInt(s) ==
  IF Len(DigitPrefix(s)) = 0 THEN NaN ELSE Num(DigitsValue(DigitPrefix(s)))

\* String.prototype.split(c) for a one-character separator.
RECURSIVE Split(_, _)
Split(s, c) ==
  IF \A i \in 1..Len(s) : s[i] # c THEN <<s>>
  ELSE LET k == CHOOSE i \in 1..Len(s) : s[i] = c /\ \A j \in 1..(i - 1) : s[j] # c
       IN <<SubSeq(s, 1, k - 1)>> \o Split(SubSeq(s, k + 1, Len(s)), c)

StartsAt(s, p, i) ==
  /\ i + Len(p) - 1 <= Len(s)
  /\ \A j \in 1..Len(p) : s[i + j - 1] = p[j]

EndsWith(s, p) == Len(p) <= Len(s) /\ StartsAt(s, p, Len(s) - Len(p) + 1)

\* String.prototype.replace(p, ''): the first occurrence of p is removed.
RemoveFirst(s, p) ==
  IF \E i \in 1..Len(s) : StartsAt(s, p, i)
  THEN LET k == CHOOSE i \in 1..Len(s) :
                  StartsAt(s, p, i) /\ \A j \in 1..(i - 1) : ~StartsAt(s, p, j)
       IN SubSeq(s, 1, k - 1) \o SubSeq(s, k + Len(p), Len(s))
  ELSE s

\* Math.round of a difference of two Date.now() readings (an integer).
MathRound(x) == x

\* ------------------------------------------------------------------ codec
\* useAudioRecorder.stopRecording: `${id}_${timestamp}_${Math.round(duration)}.wav`
HookFileName(id, timestamp, duration) ==
  id \o <<Delim>> \o NumToString(timestamp) \o <<Delim>>
     \o NumToString(MathRound(duration)) \o WavExt

\* AudioService.stopRecording: `recording_${timestamp}.wav`
SvcFileName(timestamp) ==
  <<"r", "e", "c", "o", "r", "d", "i", "n", "g">> \o <<Delim>>
     \o NumToString(timestamp) \o WavExt

\* new Date(timestamp).getTime()
DateOf(timestamp) == timestamp

\* useAudioRecorder.loadRecordings, the body of the map callback: parts[1] of a
\* name without '_' is undefined, parts[1].replace throws and the catch block
\* supplies the fallbacks.  JavaScript parts[k] is parts[k + 1] here.
HookDecode(fileName, nowMs) ==
  LET parts == Split(fileName, Delim)
  IN IF Len(parts) < 2
     THEN [id |-> fileName, fileName |-> fileName, duration |-> Num(0),
           createdAt |-> DateOf(Num(nowMs))]
     ELSE [id |-> parts[1], fileName |-> fileName,
           duration |-> IF Len(parts) > 2 THEN Number(parts[3]) ELSE Num(0),
           createdAt |-> DateOf(Number(RemoveFirst(parts[2], WavExt)))]

\* AudioService.getRecordings, the body of the map callback:
\* filename.split('_')[1]?.split('.')[0] || Date.now().toString()
SvcDecode(filename, nowMs) ==
  LET parts == Split(filename, Delim)
      seg == IF Len(parts) < 2 THEN <<>> ELSE Split(parts[2], ".")[1]
      id == IF Len(seg) = 0 THEN NumToString(nowMs) ELSE seg
  IN [id |-> id, fileName |-> filename, duration |-> Num(0),
      createdAt |-> DateOf(ParseInt(id))]

\* files.filter(file => file.endsWith('.wav'))
IsWav(file) == EndsWith(file, WavExt)

\* ------------------------------------------------------------------ sorting
\* The comparator (a, b) => b.createdAt.getTime() - a.createdAt.getTime();
\* a NaN result counts as +0 (ECMAScript SortCompare).
Compare(a, b) ==
  IF a.createdAt.nan \/ b.createdAt.nan THEN 0
  ELSE b.createdAt.val - a.createdAt.val

\* Array.prototype.sort promises a sorted result only for a consistent
\* comparator.
ConsistentComparator(list) ==
  \A i, j, k \in 1..Len(list) :
    /\ (Compare(list[i], list[j]) = 0 /\ Compare(list[j], list[k]) = 0)
          => Compare(list[i], list[k]) = 0
    /\ (Compare(list[i], list[j]) < 0 /\ Compare(list[j], list[k]) < 0)
          => Compare(list[i], list[k]) < 0

\* x goes before the first element that must come after it (stable).
Insert(sorted, x) ==
  LET later == {i \in 1..Len(sorted) : Compare(x, sorted[i]) < 0}
      k == IF later = {} THEN Len(sorted) + 1
           ELSE CHOOSE i \in later : \A j \in later : i <= j
  IN SubSeq(sorted, 1, k - 1) \o <<x>> \o SubSeq(sorted, k, Len(sorted))

RECURSIVE StableSort(_)
StableSort(list) ==
  IF Len(list) = 0 THEN <<>>
  ELSE Insert(StableSort(SubSeq(list, 1, Len(list) - 1)), list[Len(list)])

Bijections(n) ==
  {p \in [1..n -> 1..n] : \A i, j \in 1..n : p[i] = p[j] => i = j}

PermsOf(list) ==
  {[i \in 1..Len(list) |-> list[p[i]]] : p \in Bijections(Len(list))}

\* The arrays list.sort(comparator) may return: the stable sort, or, when the
\* comparator is inconsistent, an implementation-defined order.
SortOutcomes(list) ==
  IF ConsistentComparator(list) THEN {StableSort(list)} ELSE PermsOf(list)

\* The orders in which readDirectoryAsync may list a directory.
Listings(names) ==
  {f \in [1..Cardinality(names) -> names] :
      \A i, j \in 1..Cardinality(names) : f[i] = f[j] => i = j}

\* A filter that also wants a '_' in the name.
WavFilesWithDelim(files) ==
  SelectSeq(files, LAMBDA f : IsWav(f) /\ Len(Split(f, Delim)) > 1)

\* files.filter(file => file.endsWith('.wav'))
RECURSIVE WavFiles(_)
WavFiles(files) ==
  IF Len(files) = 0 THEN <<>>
  ELSE IF IsWav(files[1]) THEN <<files[1]>> \o WavFiles(Tail(files))
  ELSE WavFiles(Tail(files))

\* wavFiles.map(...) of useAudioRecorder.loadRecordings
HookClips(wavFiles, nowMs) ==
  [i \in 1..Len(wavFiles) |-> HookDecode(wavFiles[i], nowMs)]

\* wavFiles.map(...) of AudioService.getRecordings
SvcClips(wavFiles, nowMs) ==
  [i \in 1..Len(wavFiles) |-> SvcDecode(wavFiles[i], nowMs)]

\* ------------------------------------------------------------------ state
VARIABLES
  mounted,            \* the consumer that is mounted and issues the calls
  now,                \* Date.now()
  micPermission,      \* the platform's answer to requestPermissionsAsync
  audioMode,          \* the mode last set by Audio.setAudioModeAsync
  dirExists,          \* the recordings directory exists
  dir,                \* its files: name -> size
  handles,            \* native handles created so far
  nativeRecs,         \* Audio.Recording handles prepared and not yet unloaded
  loadedSounds,       \* Audio.Sound handles loaded and not yet unloaded
  soundUri,           \* the file each Audio.Sound handle was created from
  tempFiles,          \* the temporary file of each recording handle's capture
  tasks,              \* the asynchronous calls in flight, each at an await
  ret,                \* what the call that completed last returned
  \* useAudioRecorder (useState)
  recording, recordings, isRecording, permissionResponse, recordingDuration,
  startTime,
  \* AudioService (private fields)
  svcRecording, svcSound,
  \* RecordScreen (useState)
  rsIsRecording, permissionGranted,
  \* RecordingTimer (useState)
  seconds,
  \* RecordingsScreen (useState)
  scRecordings, scPlayingId, scIsPlaying, scError,
  \* useAudioPlayer (useState)
  sound, playingId, isPlaying, position, duration, error,
  \* the filename codec applied to drawn inputs
  codecFields, codecName, codecClip

fsVars == <<dirExists, dir, tempFiles>>
nativeVars == <<handles, nativeRecs, loadedSounds, soundUri>>
hookRecVars ==
  <<recording, recordings, isRecording, permissionResponse, recordingDuration,
    startTime>>
svcVars == <<svcRecording, svcSound>>
rsVars == <<rsIsRecording, permissionGranted, seconds>>
scVars == <<scRecordings, scPlayingId, scIsPlaying, scError>>
playerVars == <<sound, playingId, isPlaying, position, duration, error>>
codecVars == <<codecFields, codecName, codecClip>>
vars ==
  <<mounted, now, micPermission, audioMode, fsVars, nativeVars, tasks, ret,
    hookRecVars, svcVars, rsVars, scVars, playerVars, codecVars>>

\* ------------------------------------------------------------------ tasks
\* The calls in flight form a bag: each is a record of its operation, the await
\* it is suspended at and the locals it holds.
InFlight == BagToSet(tasks)
CanSpawn == BagCardinality(tasks) < MaxTasks
Spawn(t) == tasks' = tasks (+) SetToBag({t})
Advance(t, next) == tasks' = (tasks (-) SetToBag({t})) (+) SetToBag({next})
Finish(t) == tasks' = tasks (-) SetToBag({t})
At(t, op, pc) == t.op = op /\ t.pc = pc
\* No call is in flight.
Idle == tasks = EmptyBag
\* What a completed call reported: its return value or the message of its
\* console.error, and the descriptor it returned.
Returned(op, outcome, clip) == [op |-> op, outcome |-> outcome, clip |-> clip]

\* The result of FileSystem.getInfoAsync for a file of the directory.
FileInfo(name) ==
  IF name \in DOMAIN dir THEN [exists |-> TRUE, size |-> dir[name]]
  ELSE [exists |-> FALSE, size |-> 0]

\* The result of FileSystem.getInfoAsync for the temporary capture of a handle.
TempInfo(h) == tempFiles[h]

\* A new capture writes to a temporary file of its own: a capture that works
\* leaves a file with data, one that does not leaves no file or an empty one.
WithCapture(h, info) ==
  [k \in (DOMAIN tempFiles) \cup {h} |-> IF k = h THEN info ELSE tempFiles[k]]

TempInfos ==
  {[exists |-> FALSE, size |-> 0], [exists |-> TRUE, size |-> 0],
   [exists |-> TRUE, size |-> 1]}

\* copyAsync({from, to}): the destination gets the source's content.
CopyInto(d, name, size) ==
  [n \in (DOMAIN d) \cup {name} |-> IF n = name THEN size ELSE d[n]]

\* ------------------------------------------------------------------ initial
\* A directory holding the given names, each file with data.
DirOf(names) == [n \in names |-> 1]

\* Files a recordings directory may hold when the library is opened: what the
\* hook and AudioService wrote earlier, and files put there by other means.
HookWav == HookFileName(<<"7">>, 7, 1)
SvcWav == SvcFileName(6)
\* An earlier recording of AudioService.
SvcWavEarlier == SvcFileName(5)
GarbageWav == <<"g", "a", "r", "b", "a", "g", "e">> \o WavExt
LettersWav == <<"a", "_", "b">> \o WavExt
NotesTxt == <<"n", "o", "t", "e", "s", ".", "t", "x", "t">>
\* A name no directory holds.
MissingWav == HookFileName(<<"5">>, 5, 1)

RefreshInitDirs ==
  {DirOf({}), DirOf({HookWav, LettersWav}), DirOf({SvcWav, GarbageWav, NotesTxt}),
   DirOf({SvcWav, SvcWavEarlier})}

\* For playback: nothing, or a recording with data and an empty one.
PlayInitDirs ==
  {DirOf({}), [n \in {HookWav, SvcWav} |-> IF n = SvcWav THEN 0 ELSE 1]}



\* The directory when the recorder starts: absent or empty on a first run, or
\* holding an earlier recording.
RecInitDirs == {DirOf({}), DirOf({HookFileName(<<"7">>, 7, 1)})}

InitEnv(perms, dirs) ==
  /\ now = T0
  /\ micPermission \in perms
  /\ audioMode = "default"
  /\ dir \in dirs
  /\ dirExists \in (IF DOMAIN dir = {} THEN BOOLEAN ELSE {TRUE})
  /\ handles = 0
  /\ nativeRecs = {}
  /\ loadedSounds = {}
  /\ soundUri = <<>>
  /\ tempFiles = <<>>
  /\ ret = Null

InitHookRec ==
  /\ recording = Null
  /\ recordings = <<>>
  /\ isRecording = FALSE
  /\ permissionResponse = Null
  /\ recordingDuration = 0
  /\ startTime = Null

InitSvc == svcRecording = Null /\ svcSound = Null
InitRs == rsIsRecording = FALSE /\ permissionGranted = FALSE /\ seconds = 0
InitSc ==
  /\ scRecordings = <<>>
  /\ scPlayingId = Null
  /\ scIsPlaying = FALSE
  /\ scError = Null
InitPlayer ==
  /\ sound = Null
  /\ playingId = Null
  /\ isPlaying = FALSE
  /\ position = 0
  /\ duration = 0
  /\ error = Null
InitCodec == codecFields = Null /\ codecName = Null /\ codecClip = Null

\* The call a consumer makes when it mounts (its mount / focus effect), up to
\* the first await.
MountTask(m) ==
  CASE m = "useAudioRecorder" -> SetToBag({[op |-> "mount", pc |-> "requestPermissions"]})
    [] m = "RecordScreen" -> SetToBag({[op |-> "rsMount", pc |-> "requestPermission"]})
    [] m = "RecordingsScreen" -> SetToBag({[op |-> "getRecordings", pc |-> "initInfo"]})
    [] OTHER -> EmptyBag

Init ==
  /\ mounted \in {"useAudioRecorder", "RecordScreen"}
  /\ tasks = MountTask(mounted)
  /\ InitEnv({"granted", "denied"}, RecInitDirs) /\ InitHookRec /\ InitSvc /\ InitRs /\ InitSc /\ InitPlayer
  /\ InitCodec

\* ------------------------------------------------------------------ clock
ClockTick ==
  /\ now < MaxNow
  /\ now' = now + 1
  /\ UNCHANGED <<mounted, micPermission, audioMode, fsVars, nativeVars, tasks,
                 ret, hookRecVars, svcVars, rsVars, scVars, playerVars,
                 codecVars>>

\* ------------------------------------------------------------------
\* useAudioRecorder
notHookRec == <<mounted, micPermission, svcVars, rsVars, scVars, playerVars, codecVars>>

\* The effect without its else branch.
DurationEffectNoReset(isRec, start, isRecNew, startNew, elapsed) == elapsed

\* The effect on [isRecording, startTime]: when a dependency changed and the
\* hook is not recording any more, the elapsed time goes back to 0.
DurationEffect(isRec, start, isRecNew, startNew, elapsed) ==
  IF <<isRecNew, startNew>> = <<isRec, start>> THEN elapsed
  ELSE IF isRecNew /\ startNew # Null THEN elapsed
  ELSE 0

\* The setInterval callback of that effect.
IntervalFire ==
  /\ mounted = "useAudioRecorder"
  /\ isRecording /\ startTime # Null
  /\ recordingDuration' = now - Val(startTime)
  /\ UNCHANGED <<now, audioMode, fsVars, nativeVars, tasks, ret, recording,
                 recordings, isRecording, permissionResponse, startTime,
                 notHookRec>>

\* Mount effect: requestPermissionsAsync settles.  The effect's async function
\* has no try: a rejection rejects its promise, which nothing handles.
MountPermission(ok) ==
  \E t \in InFlight :
    /\ At(t, "mount", "requestPermissions")
    /\ IF ok
       THEN /\ permissionResponse' = Some([granted |-> micPermission = "granted"])
            /\ Advance(t, [op |-> "mount", pc |-> "setAudioMode"])
            /\ UNCHANGED ret
       ELSE /\ Finish(t)
            /\ ret' = Some(Returned("mount", "rejected", Null))
            /\ UNCHANGED permissionResponse
    /\ UNCHANGED <<now, audioMode, fsVars, nativeVars, recording, recordings,
                   isRecording, recordingDuration, startTime, notHookRec>>

\* Mount effect: setAudioModeAsync settles; loadRecordings() is called and runs
\* up to its first await.
MountAudioMode(ok) ==
  \E t \in InFlight :
    /\ At(t, "mount", "setAudioMode")
    /\ IF ok
       THEN /\ audioMode' = "record"
            /\ Advance(t, [op |-> "loadRecordings", pc |-> "dirInfo"])
            /\ UNCHANGED ret
       ELSE /\ Finish(t)
            /\ ret' = Some(Returned("mount", "rejected", Null))
            /\ UNCHANGED audioMode
    /\ UNCHANGED <<now, fsVars, nativeVars, hookRecVars, notHookRec>>

\* A consumer calls loadRecordings().
LoadRecordings ==
  /\ mounted = "useAudioRecorder"
  /\ CanSpawn
  /\ Spawn([op |-> "loadRecordings", pc |-> "dirInfo"])
  /\ UNCHANGED <<now, audioMode, fsVars, nativeVars, ret, hookRecVars, notHookRec>>

\* loadRecordings returns, to stopRecording when that called it: stopRecording
\* then clears the handle (setRecording(null)).  A failed scan has logged
\* 'Failed to load recordings' and returns like any other.
LoadReturn(t, list, outcome) ==
  /\ recordings' = list
  /\ IF t.op = "stopRecording"
     THEN /\ recording' = Null
          /\ ret' = Some(Returned("stopRecording", outcome, Null))
     ELSE /\ UNCHANGED recording
          /\ ret' = Some(Returned("loadRecordings", outcome, Null))
  /\ Finish(t)

\* The call after readDirectoryAsync: stopRecording still holds its fileName.
Listed(t, files) ==
  IF t.op = "stopRecording"
  THEN [op |-> t.op, pc |-> "fileInfo", files |-> files, wavFiles |-> WavFiles(files),
        fileName |-> t.fileName]
  ELSE [op |-> t.op, pc |-> "fileInfo", files |-> files, wavFiles |-> WavFiles(files)]

IsLoading(t) == t.op \in {"loadRecordings", "stopRecording"}

\* loadRecordings: getInfoAsync(recordingsDir) settles.
LoadDirInfo(ok) ==
  \E t \in InFlight :
    /\ IsLoading(t) /\ t.pc = "dirInfo"
    /\ IF ~ok THEN LoadReturn(t, recordings, "Failed to load recordings")
       ELSE /\ Advance(t, [t EXCEPT
                             !.pc = IF dirExists THEN "readDirectory" ELSE "makeDirectory"])
            /\ UNCHANGED <<recording, recordings, ret>>
    /\ UNCHANGED <<now, audioMode, fsVars, nativeVars, isRecording,
                   permissionResponse, recordingDuration, startTime, notHookRec>>

\* loadRecordings: makeDirectoryAsync settles; the list becomes empty.
LoadMakeDirectory(ok) ==
  \E t \in InFlight :
    /\ IsLoading(t) /\ t.pc = "makeDirectory"
    /\ IF ok
       THEN /\ dirExists' = TRUE
            /\ LoadReturn(t, <<>>, "done")
       ELSE /\ UNCHANGED dirExists
            /\ LoadReturn(t, recordings, "Failed to load recordings")
    /\ UNCHANGED <<now, audioMode, dir, tempFiles, nativeVars, isRecording,
                   permissionResponse, recordingDuration, startTime, notHookRec>>

\* loadRecordings: readDirectoryAsync settles; the names are filtered and
\* getInfoAsync is called for each.
LoadReadDirectory(ok) ==
  \E t \in InFlight :
    /\ IsLoading(t) /\ t.pc = "readDirectory"
    /\ IF ok /\ dirExists
       THEN /\ \E files \in Listings(DOMAIN dir) : Advance(t, Listed(t, files))
            /\ UNCHANGED <<recording, recordings, ret>>
       ELSE LoadReturn(t, recordings, "Failed to load recordings")
    /\ UNCHANGED <<now, audioMode, fsVars, nativeVars, isRecording,
                   permissionResponse, recordingDuration, startTime, notHookRec>>

\* loadRecordings: Promise.all settles; the names are decoded, sorted and the
\* list is replaced.
LoadFileInfo(ok) ==
  \E t \in InFlight :
    /\ IsLoading(t) /\ t.pc = "fileInfo"
    /\ IF ok
       THEN \E sorted \in SortOutcomes(HookClips(t.wavFiles, now)) :
              LoadReturn(t, sorted, "done")
       ELSE LoadReturn(t, recordings, "Failed to load recordings")
    /\ UNCHANGED <<now, audioMode, fsVars, nativeVars, isRecording,
                   permissionResponse, recordingDuration, startTime, notHookRec>>

\* A consumer calls startRecording().  The call returns at once when the
\* permission response is known and not granted.
StartRecording ==
  /\ mounted = "useAudioRecorder"
  /\ CanSpawn
  /\ IF permissionResponse # Null /\ ~Val(permissionResponse).granted
     THEN /\ ret' = Some(Returned("startRecording", "No recording permission", Null))
          /\ UNCHANGED tasks
     ELSE /\ Spawn([op |-> "startRecording", pc |-> "setAudioMode"])
          /\ UNCHANGED ret
  /\ UNCHANGED <<now, audioMode, fsVars, nativeVars, hookRecVars, notHookRec>>

\* startRecording: setAudioModeAsync settles.
StartAudioMode(ok) ==
  \E t \in InFlight :
    /\ At(t, "startRecording", "setAudioMode")
    /\ IF ok
       THEN /\ audioMode' = "record"
            /\ Advance(t, [op |-> "startRecording", pc |-> "createAsync"])
            /\ UNCHANGED ret
       ELSE /\ Finish(t)
            /\ ret' = Some(Returned("startRecording", "Failed to start recording", Null))
            /\ UNCHANGED audioMode
    /\ UNCHANGED <<now, fsVars, nativeVars, hookRecVars, notHookRec>>

\* Audio.Recording.createAsync resolves only with the microphone permission
\* granted.
CanCreateRecording == micPermission = "granted" /\ handles < MaxHandles

\* startRecording: Audio.Recording.createAsync settles.
StartCreate(ok) ==
  \E t \in InFlight :
    /\ At(t, "startRecording", "createAsync")
    /\ ok => CanCreateRecording
    /\ IF ok
       THEN /\ handles' = handles + 1
            /\ nativeRecs' = nativeRecs \cup {handles + 1}
            /\ \E info \in TempInfos : tempFiles' = WithCapture(handles + 1, info)
            /\ startTime' = Some(now)
            /\ recording' = Some(handles + 1)
            /\ isRecording' = TRUE
            /\ recordingDuration' =
                 DurationEffect(isRecording, startTime, TRUE, Some(now), recordingDuration)
            /\ ret' = Some(Returned("startRecording", "done", Null))
       ELSE /\ ret' = Some(Returned("startRecording", "Failed to start recording", Null))
            /\ UNCHANGED <<handles, nativeRecs, tempFiles, startTime, recording,
                           isRecording, recordingDuration>>
    /\ Finish(t)
    /\ UNCHANGED <<now, audioMode, dirExists, dir, loadedSounds, soundUri, recordings,
                   permissionResponse, notHookRec>>

\* A consumer calls stopRecording(): nothing without a handle; otherwise the
\* flags are cleared and stopAndUnloadAsync is awaited.
StopRecording ==
  /\ mounted = "useAudioRecorder"
  /\ CanSpawn
  /\ IF recording = Null
     THEN /\ ret' = Some(Returned("stopRecording", "return", Null))
          /\ UNCHANGED <<tasks, isRecording, startTime, recordingDuration>>
     ELSE /\ isRecording' = FALSE
          /\ startTime' = Null
          /\ recordingDuration' =
               DurationEffect(isRecording, startTime, FALSE, Null, recordingDuration)
          /\ Spawn([op |-> "stopRecording", pc |-> "stopAndUnload",
                    recording |-> Val(recording), duration |-> recordingDuration])
          /\ UNCHANGED ret
  /\ UNCHANGED <<now, audioMode, fsVars, nativeVars, recording, recordings,
                 permissionResponse, notHookRec>>

\* The catch block of stopRecording.
StopCatch(t) ==
  /\ isRecording' = FALSE
  /\ recording' = Null
  /\ recordingDuration' =
       DurationEffect(isRecording, startTime, FALSE, startTime, recordingDuration)
  /\ ret' = Some(Returned("stopRecording", "Failed to stop recording", Null))
  /\ Finish(t)

\* The check without its size test.
HookTempBadExistsOnly(fileInfo) == ~fileInfo.exists

\* if (!fileInfo.exists || fileInfo.size === 0)
HookTempBad(fileInfo) == ~fileInfo.exists \/ fileInfo.size = 0

\* stopRecording: stopAndUnloadAsync settles; getURI() may give no URI.
StopAndUnload(ok) ==
  \E t \in InFlight :
    /\ At(t, "stopRecording", "stopAndUnload")
    /\ IF ok
       THEN /\ nativeRecs' = nativeRecs \ {t.recording}
            /\ \E uri \in {Null, Some(t.recording)} :
                 IF uri = Null
                 THEN /\ Finish(t)
                      /\ ret' = Some(Returned("stopRecording", "No recording URI available", Null))
                 ELSE /\ Advance(t, [t EXCEPT !.pc = "getInfo"])
                      /\ UNCHANGED ret
            /\ UNCHANGED <<isRecording, recording, recordingDuration>>
       ELSE /\ StopCatch(t)
            /\ UNCHANGED nativeRecs
    /\ UNCHANGED <<now, audioMode, fsVars, handles, loadedSounds, soundUri, recordings,
                   permissionResponse, startTime, notHookRec>>

\* stopRecording: getInfoAsync(uri) settles; a good capture gets its name
\* from two readings of Date.now().
StopGetInfo(ok) ==
  \E t \in InFlight :
    /\ At(t, "stopRecording", "getInfo")
    /\ IF ok
       THEN /\ LET fileInfo == TempInfo(t.recording) IN
                 IF HookTempBad(fileInfo)
                 THEN /\ Finish(t)
                      /\ ret' = Some(Returned("stopRecording", "Recording file is missing or empty", Null))
                      /\ UNCHANGED now
                 ELSE /\ \E timestamp \in {now, now + 1} \cap (T0..MaxNow) :
                           /\ now' = timestamp
                           /\ Advance(t, [op |-> "stopRecording", pc |-> "ensureDirInfo",
                                          recording |-> t.recording,
                                          fileName |-> HookFileName(NumToString(now), timestamp,
                                                                    t.duration)])
                      /\ UNCHANGED ret
            /\ UNCHANGED <<isRecording, recording, recordingDuration>>
       ELSE /\ StopCatch(t)
            /\ UNCHANGED now
    /\ UNCHANGED <<audioMode, fsVars, nativeVars, recordings, permissionResponse,
                   startTime, notHookRec>>

\* stopRecording: getInfoAsync(recordingsDir) settles.
StopEnsureDirInfo(ok) ==
  \E t \in InFlight :
    /\ At(t, "stopRecording", "ensureDirInfo")
    /\ IF ok
       THEN /\ Advance(t, [t EXCEPT
                             !.pc = IF dirExists THEN "copy" ELSE "ensureMakeDirectory"])
            /\ UNCHANGED <<isRecording, recording, recordingDuration, ret>>
       ELSE StopCatch(t)
    /\ UNCHANGED <<now, audioMode, fsVars, nativeVars, recordings,
                   permissionResponse, startTime, notHookRec>>

\* stopRecording: makeDirectoryAsync settles.
StopMakeDirectory(ok) ==
  \E t \in InFlight :
    /\ At(t, "stopRecording", "ensureMakeDirectory")
    /\ IF ok
       THEN /\ dirExists' = TRUE
            /\ Advance(t, [t EXCEPT !.pc = "copy"])
            /\ UNCHANGED <<isRecording, recording, recordingDuration, ret>>
       ELSE /\ StopCatch(t)
            /\ UNCHANGED dirExists
    /\ UNCHANGED <<now, audioMode, dir, tempFiles, nativeVars, recordings,
                   permissionResponse, startTime, notHookRec>>

\* stopRecording: copyAsync settles.
StopCopy(ok) ==
  \E t \in InFlight :
    /\ At(t, "stopRecording", "copy")
    /\ IF ok /\ dirExists
       THEN /\ dir' = CopyInto(dir, t.fileName, TempInfo(t.recording).size)
            /\ Advance(t, [t EXCEPT !.pc = "verify"])
            /\ UNCHANGED <<isRecording, recording, recordingDuration, ret>>
       ELSE /\ StopCatch(t)
            /\ UNCHANGED dir
    /\ UNCHANGED <<now, audioMode, dirExists, tempFiles, nativeVars, recordings,
                   permissionResponse, startTime, notHookRec>>

\* stopRecording without its `await loadRecordings()`: the handle is cleared
\* after the copy is verified.
StopVerifySkipsRefresh(ok) ==
  \E t \in InFlight :
    /\ At(t, "stopRecording", "verify")
    /\ IF ok
       THEN /\ recording' = Null
            /\ ret' = Some(Returned("stopRecording", "done", Null))
            /\ Finish(t)
            /\ UNCHANGED <<isRecording, recordingDuration>>
       ELSE StopCatch(t)
    /\ UNCHANGED <<now, audioMode, fsVars, nativeVars, recordings,
                   permissionResponse, startTime, notHookRec>>

\* stopRecording: getInfoAsync(destinationUri) settles; loadRecordings() is
\* called and runs up to its first await.
StopVerify(ok) ==
  \E t \in InFlight :
    /\ At(t, "stopRecording", "verify")
    /\ IF ok
       THEN /\ Advance(t, [op |-> "stopRecording", pc |-> "dirInfo",
                           fileName |-> t.fileName])
            /\ UNCHANGED <<isRecording, recording, recordingDuration, ret>>
       ELSE StopCatch(t)
    /\ UNCHANGED <<now, audioMode, fsVars, nativeVars, recordings,
                   permissionResponse, startTime, notHookRec>>

HookRecNext ==
  \/ IntervalFire
  \/ StartRecording
  \/ StopRecording
  \/ \E ok \in BOOLEAN :
       \/ MountPermission(ok)
       \/ MountAudioMode(ok)
       \/ LoadDirInfo(ok)
       \/ LoadMakeDirectory(ok)
       \/ LoadReadDirectory(ok)
       \/ LoadFileInfo(ok)
       \/ StartAudioMode(ok)
       \/ StartCreate(ok)
       \/ StopAndUnload(ok)
       \/ StopGetInfo(ok)
       \/ StopEnsureDirInfo(ok)
       \/ StopMakeDirectory(ok)
       \/ StopCopy(ok)
       \/ StopVerify(ok)

\* ------------------------------------------------------------------
\* AudioService (recording) driven by RecordScreen
notSvcRec ==
  <<mounted, micPermission, loadedSounds, soundUri, svcSound, hookRecVars, scVars,
    playerVars, codecVars>>

\* RecordingTimer, the effect on [isRecording]: when the prop changed to
\* false the seconds go back to 0.
TimerEffect(isRec, isRecNew, s) ==
  IF isRecNew = isRec THEN s
  ELSE IF isRecNew THEN s
  ELSE 0

\* The setInterval callback of that effect: setSeconds(s => s + 1).  The timer
\* is rendered once the permission is granted.
TimerFire ==
  /\ mounted = "RecordScreen"
  /\ permissionGranted /\ rsIsRecording
  /\ seconds < MaxSeconds
  /\ seconds' = seconds + 1
  /\ UNCHANGED <<now, audioMode, fsVars, handles, nativeRecs, tasks, ret, svcRecording,
                 rsIsRecording, permissionGranted, notSvcRec>>

\* The component that records unmounts: the cleanups of its effects clear
\* the intervals.  Calls in flight go on; what they set in the state of the
\* unmounted component is seen by nobody.
RecorderUnmount ==
  /\ mounted \in {"useAudioRecorder", "RecordScreen"}
  /\ mounted' = IF mounted = "useAudioRecorder" THEN "useAudioRecorder unmounted"
                ELSE "RecordScreen unmounted"
  /\ UNCHANGED <<now, micPermission, audioMode, fsVars, nativeVars, tasks, ret,
                 hookRecVars, svcVars, rsVars, scVars, playerVars, codecVars>>

\* RecordScreen mount effect: AudioService.requestPermission() settles; the
\* promise has a then() and no catch().
RsMountPermission(ok) ==
  \E t \in InFlight :
    /\ At(t, "rsMount", "requestPermission")
    /\ permissionGranted' = IF ok THEN micPermission = "granted" ELSE permissionGranted
    /\ ret' = IF ok THEN ret ELSE Some(Returned("rsMount", "rejected", Null))
    /\ Finish(t)
    /\ UNCHANGED <<now, audioMode, fsVars, handles, nativeRecs, svcRecording,
                   rsIsRecording, seconds, notSvcRec>>

\* handleRecordPress (the button is disabled without permissionGranted), up
\* to the first await of the AudioService call it makes.
HandleRecordPress ==
  /\ mounted = "RecordScreen"
  /\ permissionGranted
  /\ CanSpawn
  /\ IF rsIsRecording
     THEN /\ rsIsRecording' = FALSE
          /\ seconds' = TimerEffect(rsIsRecording, FALSE, seconds)
          /\ IF svcRecording = Null
             THEN /\ ret' = Some(Returned("AudioService.stopRecording", "null", Null))
                  /\ UNCHANGED tasks
             ELSE /\ Spawn([op |-> "svcStop", pc |-> "stopAndUnload",
                            recording |-> Val(svcRecording)])
                  /\ UNCHANGED ret
     ELSE /\ Spawn([op |-> "svcStart", pc |-> "requestPermission"])
          /\ UNCHANGED <<rsIsRecording, seconds, ret>>
  /\ UNCHANGED <<now, audioMode, fsVars, handles, nativeRecs, svcRecording,
                 permissionGranted, notSvcRec>>

\* AudioService.startRecording returns false from its catch block, and
\* handleRecordPress stores that.
SvcStartCatch(t) ==
  /\ ret' = Some(Returned("AudioService.startRecording", "false", Null))
  /\ rsIsRecording' = FALSE
  /\ seconds' = TimerEffect(rsIsRecording, FALSE, seconds)
  /\ Finish(t)

\* startRecording: requestPermission() settles; not granted throws.
SvcStartPermission(ok) ==
  \E t \in InFlight :
    /\ At(t, "svcStart", "requestPermission")
    /\ IF ok /\ micPermission = "granted"
       THEN /\ Advance(t, [op |-> "svcStart", pc |-> "setAudioMode"])
            /\ UNCHANGED <<ret, rsIsRecording, seconds>>
       ELSE SvcStartCatch(t)
    /\ UNCHANGED <<now, audioMode, fsVars, handles, nativeRecs, svcRecording,
                   permissionGranted, notSvcRec>>

\* startRecording: setAudioModeAsync settles; init() runs to its first await.
SvcStartAudioMode(ok) ==
  \E t \in InFlight :
    /\ At(t, "svcStart", "setAudioMode")
    /\ IF ok
       THEN /\ audioMode' = "record"
            /\ Advance(t, [op |-> "svcStart", pc |-> "initInfo"])
            /\ UNCHANGED <<ret, rsIsRecording, seconds>>
       ELSE /\ SvcStartCatch(t)
            /\ UNCHANGED audioMode
    /\ UNCHANGED <<now, fsVars, handles, nativeRecs, svcRecording,
                   permissionGranted, notSvcRec>>

\* startRecording, init(): getInfoAsync(recordingsDirectory) settles.
SvcStartInitInfo(ok) ==
  \E t \in InFlight :
    /\ At(t, "svcStart", "initInfo")
    /\ IF ok
       THEN /\ Advance(t, [op |-> "svcStart",
                           pc |-> IF dirExists THEN "createAsync" ELSE "initMakeDirectory"])
            /\ UNCHANGED <<ret, rsIsRecording, seconds>>
       ELSE SvcStartCatch(t)
    /\ UNCHANGED <<now, audioMode, fsVars, handles, nativeRecs, svcRecording,
                   permissionGranted, notSvcRec>>

\* startRecording, init(): makeDirectoryAsync settles.
SvcStartInitMakeDirectory(ok) ==
  \E t \in InFlight :
    /\ At(t, "svcStart", "initMakeDirectory")
    /\ IF ok
       THEN /\ dirExists' = TRUE
            /\ Advance(t, [op |-> "svcStart", pc |-> "createAsync"])
            /\ UNCHANGED <<ret, rsIsRecording, seconds>>
       ELSE /\ SvcStartCatch(t)
            /\ UNCHANGED dirExists
    /\ UNCHANGED <<now, audioMode, dir, tempFiles, handles, nativeRecs,
                   svcRecording, permissionGranted, notSvcRec>>

\* startRecording: Audio.Recording.createAsync settles; the handle is stored,
\* true is returned and handleRecordPress stores it.
SvcStartCreate(ok) ==
  \E t \in InFlight :
    /\ At(t, "svcStart", "createAsync")
    /\ ok => CanCreateRecording
    /\ IF ok
       THEN /\ handles' = handles + 1
            /\ nativeRecs' = nativeRecs \cup {handles + 1}
            /\ \E info \in TempInfos : tempFiles' = WithCapture(handles + 1, info)
            /\ svcRecording' = Some(handles + 1)
            /\ ret' = Some(Returned("AudioService.startRecording", "true", Null))
            /\ rsIsRecording' = TRUE
            /\ seconds' = TimerEffect(rsIsRecording, TRUE, seconds)
            /\ Finish(t)
       ELSE /\ SvcStartCatch(t)
            /\ UNCHANGED <<handles, nativeRecs, tempFiles, svcRecording>>
    /\ UNCHANGED <<now, audioMode, dirExists, dir, permissionGranted, notSvcRec>>

\* AudioService.stopRecording returns null, silently ("null") or after a
\* console.error.
SvcStopNull(t, message) ==
  /\ ret' = Some(Returned("AudioService.stopRecording", message, Null))
  /\ Finish(t)

\* if (!fileInfo.exists || fileInfo.size === 0)
SvcTempBad(fileInfo) == ~fileInfo.exists \/ fileInfo.size = 0

\* stopRecording: stopAndUnloadAsync settles; this.recording is read again for
\* getURI() and getStatusAsync().
SvcStopAndUnload(ok) ==
  \E t \in InFlight :
    /\ At(t, "svcStop", "stopAndUnload")
    /\ IF ok
       THEN /\ nativeRecs' = nativeRecs \ {t.recording}
            /\ IF svcRecording = Null
               THEN SvcStopNull(t, "Failed to stop recording")
               ELSE /\ \E uri \in {Null, svcRecording} :
                         Advance(t, [op |-> "svcStop", pc |-> "getStatus", uri |-> uri])
                    /\ UNCHANGED ret
       ELSE /\ SvcStopNull(t, "Failed to stop recording")
            /\ UNCHANGED nativeRecs
    /\ UNCHANGED <<now, audioMode, fsVars, handles, svcRecording, rsVars, notSvcRec>>

\* stopRecording: getStatusAsync settles; the handle is cleared, then the URI
\* is checked.
SvcStopGetStatus(ok) ==
  \E t \in InFlight :
    /\ At(t, "svcStop", "getStatus")
    /\ IF ok
       THEN /\ svcRecording' = Null
            /\ IF t.uri = Null
               THEN SvcStopNull(t, "null")
               ELSE /\ \E durationMillis \in 0..(now - T0) :
                         Advance(t, [op |-> "svcStop", pc |-> "getInfo",
                                     uri |-> Val(t.uri),
                                     durationMillis |-> durationMillis])
                    /\ UNCHANGED ret
       ELSE /\ SvcStopNull(t, "Failed to stop recording")
            /\ UNCHANGED svcRecording
    /\ UNCHANGED <<now, audioMode, fsVars, handles, nativeRecs, rsVars, notSvcRec>>

\* stopRecording: getInfoAsync(uri) settles; a good capture gets its name from
\* Date.now() and is copied.
SvcStopGetInfo(ok) ==
  \E t \in InFlight :
    /\ At(t, "svcStop", "getInfo")
    /\ IF ok
       THEN LET fileInfo == TempInfo(t.uri) IN
              IF SvcTempBad(fileInfo)
              THEN SvcStopNull(t, "Recording file is missing or empty")
              ELSE /\ Advance(t, [op |-> "svcStop", pc |-> "copy",
                                  durationMillis |-> t.durationMillis,
                                  uri |-> t.uri, timestamp |-> now])
                   /\ UNCHANGED ret
       ELSE SvcStopNull(t, "Failed to stop recording")
    /\ UNCHANGED <<now, audioMode, fsVars, handles, nativeRecs, svcRecording,
                   rsVars, notSvcRec>>

\* stopRecording: copyAsync settles.
SvcStopCopy(ok) ==
  \E t \in InFlight :
    /\ At(t, "svcStop", "copy")
    /\ IF ok /\ dirExists
       THEN /\ dir' = CopyInto(dir, SvcFileName(t.timestamp), TempInfo(t.uri).size)
            /\ Advance(t, [t EXCEPT !.pc = "verify"])
            /\ UNCHANGED ret
       ELSE /\ SvcStopNull(t, "Failed to stop recording")
            /\ UNCHANGED dir
    /\ UNCHANGED <<now, audioMode, dirExists, tempFiles, handles, nativeRecs,
                   svcRecording, rsVars, notSvcRec>>

\* stopRecording: getInfoAsync(destinationUri) settles; the descriptor of the
\* saved file is returned.
SvcStopVerify(ok) ==
  \E t \in InFlight :
    /\ At(t, "svcStop", "verify")
    /\ IF ok /\ FileInfo(SvcFileName(t.timestamp)).exists
       THEN /\ ret' = Some(Returned("AudioService.stopRecording", "clip",
                        Some([id |-> NumToString(t.timestamp),
                              fileName |-> SvcFileName(t.timestamp),
                              duration |-> Num(t.durationMillis),
                              createdAt |-> DateOf(Num(now))])))
            /\ Finish(t)
       ELSE SvcStopNull(t, IF ok THEN "Failed to save recording" ELSE "Failed to stop recording")
    /\ UNCHANGED <<now, audioMode, fsVars, handles, nativeRecs, svcRecording,
                   rsVars, notSvcRec>>

SvcRecNext ==
  \/ HandleRecordPress
  \/ TimerFire
  \/ \E ok \in BOOLEAN :
       \/ RsMountPermission(ok)
       \/ SvcStartPermission(ok)
       \/ SvcStartAudioMode(ok)
       \/ SvcStartInitInfo(ok)
       \/ SvcStartInitMakeDirectory(ok)
       \/ SvcStartCreate(ok)
       \/ SvcStopAndUnload(ok)
       \/ SvcStopGetStatus(ok)
       \/ SvcStopGetInfo(ok)
       \/ SvcStopCopy(ok)
       \/ SvcStopVerify(ok)

Next == ClockTick \/ RecorderUnmount \/ HookRecNext \/ SvcRecNext

Spec == Init /\ [][Next]_vars

\* ------------------------------------------------------------------
\* useAudioRecorder as the library: loadRecordings and deleteRecording
AbsentId == <<"0">>

\* copy of a directory without one file (deleteAsync)
Without(d, name) == [n \in (DOMAIN d) \ {name} |-> d[n]]

\* recordings.filter(r => r.id !== id)
WithoutId(list, id) == SelectSeq(list, LAMBDA r : r.id # id)

\* A consumer calls deleteRecording(id): recordings.find(r => r.id === id)
\* over the list of the render the callback belongs to.
DeleteRecording ==
  /\ mounted = "useAudioRecorder"
  /\ CanSpawn
  /\ \E id \in {recordings[i].id : i \in 1..Len(recordings)} \cup {AbsentId} :
       LET found == {i \in 1..Len(recordings) : recordings[i].id = id}
       IN IF found = {}
          THEN /\ ret' = Some(Returned("deleteRecording", "return", Null))
               /\ UNCHANGED tasks
          ELSE /\ Spawn([op |-> "deleteRecording", pc |-> "deleteAsync", id |-> id,
                         recordings |-> recordings,
                         recordingToDelete |->
                           recordings[CHOOSE i \in found : \A j \in found : i <= j]])
               /\ UNCHANGED ret
  /\ UNCHANGED <<now, audioMode, fsVars, nativeVars, hookRecVars, notHookRec>>

\* deleteRecording: deleteAsync settles (it rejects for a file that is gone);
\* the list becomes the captured list without the id.
DeleteRecordingAsync(ok) ==
  \E t \in InFlight :
    /\ At(t, "deleteRecording", "deleteAsync")
    /\ IF ok /\ t.recordingToDelete.fileName \in DOMAIN dir
       THEN /\ dir' = Without(dir, t.recordingToDelete.fileName)
            /\ recordings' = WithoutId(t.recordings, t.id)
            /\ ret' = Some(Returned("deleteRecording", "done", Null))
       ELSE /\ ret' = Some(Returned("deleteRecording", "Failed to delete recording", Null))
            /\ UNCHANGED <<dir, recordings>>
    /\ Finish(t)
    /\ UNCHANGED <<now, audioMode, dirExists, tempFiles, nativeVars, recording,
                   isRecording, permissionResponse, recordingDuration, startTime,
                   notHookRec>>

HookLibraryNext ==
  \/ LoadRecordings
  \/ DeleteRecording
  \/ \E ok \in BOOLEAN :
       \/ MountPermission(ok)
       \/ MountAudioMode(ok)
       \/ LoadDirInfo(ok)
       \/ LoadMakeDirectory(ok)
       \/ LoadReadDirectory(ok)
       \/ LoadFileInfo(ok)
       \/ DeleteRecordingAsync(ok)

\* ------------------------------------------------------------------
\* useAudioPlayer
playerFrame ==
  <<mounted, now, micPermission, fsVars, nativeRecs, hookRecVars, svcVars, rsVars,
    scVars, codecVars>>

\* Audio.Sound.createAsync({ uri }, ...): the new sound plays the file at uri.
WithSound(h, fileName) ==
  [k \in (DOMAIN soundUri) \cup {h} |-> IF k = h THEN fileName ELSE soundUri[k]]

\* Audio.Sound.createAsync can load a sound from a file that exists.
CanCreateSound(fileName) == handles < MaxSounds /\ FileInfo(fileName).exists

\* The clips a consumer can pass: those of the files in the directory, and one
\* whose file is gone.
Playable ==
  {HookDecode(n, now) : n \in {f \in DOMAIN dir : IsWav(f)} \cup {MissingWav}}

\* A consumer calls playSound(recording): the error is cleared and getInfoAsync
\* is awaited; the callback holds the sound of its render.
PlaySound ==
  /\ mounted = "useAudioPlayer"
  /\ CanSpawn
  /\ \E rec \in Playable :
       Spawn([op |-> "playSound", pc |-> "getInfo", recording |-> rec, sound |-> sound])
  /\ error' = Null
  /\ UNCHANGED <<audioMode, handles, loadedSounds, soundUri, ret, sound, playingId, isPlaying,
                 position, duration, playerFrame>>

\* if (!fileInfo.exists || fileInfo.size === 0)
PlayFileBad(fileInfo) == ~fileInfo.exists \/ fileInfo.size = 0

\* playSound: getInfoAsync settles; when it rejects the catch block only logs
\* and the call goes on.
PlaySoundGetInfo(ok) ==
  \E t \in InFlight :
    /\ At(t, "playSound", "getInfo")
    /\ IF ok /\ PlayFileBad(FileInfo(t.recording.fileName))
       THEN /\ error' = Some("File doesn't exist or is empty")
            /\ ret' = Some(Returned("playSound", "return", Null))
            /\ Finish(t)
       ELSE /\ Advance(t, [t EXCEPT !.pc = "setAudioMode"])
            /\ UNCHANGED <<error, ret>>
    /\ UNCHANGED <<audioMode, handles, loadedSounds, soundUri, sound, playingId, isPlaying,
                   position, duration, playerFrame>>

\* playSound without its `if (sound) await sound.unloadAsync()`.
PlaySoundAudioModeNoUnload(ok) ==
  \E t \in InFlight :
    /\ At(t, "playSound", "setAudioMode")
    /\ audioMode' = IF ok THEN "playback" ELSE audioMode
    /\ Advance(t, [t EXCEPT !.pc = "createAsync"])
    /\ UNCHANGED <<handles, loadedSounds, soundUri, ret, playerVars, playerFrame>>

\* playSound, configureAudioSession: setAudioModeAsync settles (a rejection is
\* logged); then the sound of the render, if any, is unloaded.
PlaySoundAudioMode(ok) ==
  \E t \in InFlight :
    /\ At(t, "playSound", "setAudioMode")
    /\ audioMode' = IF ok THEN "playback" ELSE audioMode
    /\ Advance(t, [t EXCEPT !.pc = IF t.sound # Null THEN "unloadAsync" ELSE "createAsync"])
    /\ UNCHANGED <<handles, loadedSounds, soundUri, ret, playerVars, playerFrame>>

\* playSound: sound.unloadAsync() settles; it is awaited outside any try, so a
\* rejection rejects playSound.
PlaySoundUnload(ok) ==
  \E t \in InFlight :
    /\ At(t, "playSound", "unloadAsync")
    /\ IF ok
       THEN /\ loadedSounds' = loadedSounds \ {Val(t.sound)}
            /\ Advance(t, [t EXCEPT !.pc = "createAsync"])
            /\ UNCHANGED ret
       ELSE /\ ret' = Some(Returned("playSound", "rejected", Null))
            /\ Finish(t)
            /\ UNCHANGED loadedSounds
    /\ UNCHANGED <<audioMode, handles, soundUri, playerVars, playerFrame>>

\* playSound: Audio.Sound.createAsync settles.  setSound(newSound) re-runs the
\* effect on [sound], whose cleanup unloads the sound that was current; an
\* unmounted hook renders no more, so no effect runs for it.
PlaySoundCreate(ok) ==
  \E t \in InFlight :
    /\ At(t, "playSound", "createAsync")
    /\ ok => CanCreateSound(t.recording.fileName)
    /\ IF ok
       THEN /\ handles' = handles + 1
            /\ loadedSounds' = loadedSounds \cup {handles + 1}
            /\ soundUri' = WithSound(handles + 1, t.recording.fileName)
            /\ sound' = Some(handles + 1)
            /\ playingId' = Some(t.recording.id)
            /\ isPlaying' = TRUE
            /\ ret' = Some(Returned("playSound", "done", Null))
            /\ IF sound # Null /\ mounted = "useAudioPlayer"
               THEN Advance(t, [op |-> "cleanup", pc |-> "unloadAsync", sound |-> Val(sound)])
               ELSE Finish(t)
            /\ UNCHANGED error
       ELSE /\ error' = Some("Playback error")
            /\ isPlaying' = FALSE
            /\ playingId' = Null
            /\ ret' = Some(Returned("playSound", "Error playing sound", Null))
            /\ Finish(t)
            /\ UNCHANGED <<handles, loadedSounds, soundUri, sound>>
    /\ UNCHANGED <<audioMode, position, duration, playerFrame>>

\* The cleanup of the effect on [sound]: its unloadAsync() settles.
CleanupUnload(ok) ==
  \E t \in InFlight :
    /\ At(t, "cleanup", "unloadAsync")
    /\ loadedSounds' = IF ok THEN loadedSounds \ {t.sound} ELSE loadedSounds
    /\ Finish(t)
    /\ UNCHANGED <<audioMode, handles, soundUri, ret, playerVars, playerFrame>>

\* The statuses a loaded sound pushes to its callback: the media lasts
\* MaxPosition, and the media has just finished or not.
LoadedStatuses ==
  {[isLoaded |-> TRUE, isPlaying |-> p, positionMillis |-> pos,
    durationMillis |-> MaxPosition, didJustFinish |-> f] :
      p \in BOOLEAN, pos \in 0..MaxPosition, f \in BOOLEAN}

\* setIsPlaying(status.isPlaying || false) as the media's end reports it.
StatusIsPlayingAsReported(status) == status.isPlaying

\* setIsPlaying(status.isPlaying || false), then setIsPlaying(false) when the
\* media has just finished: the last call of the batch stands.
StatusIsPlaying(status) == IF status.didJustFinish THEN FALSE ELSE status.isPlaying

\* What a status callback logged, and the sound that pushed the status.
Reported(h, outcome, status) ==
  [op |-> "onPlaybackStatusUpdate", outcome |-> outcome, clip |-> status, sound |-> h]

\* onPlaybackStatusUpdate(status) for a loaded status of a sound this hook
\* created: the status is logged and stored.
OnPlaybackStatusUpdate ==
  /\ mounted = "useAudioPlayer"
  /\ \E h \in loadedSounds, status \in LoadedStatuses :
       /\ isPlaying' = StatusIsPlaying(status)
       /\ position' = IF status.didJustFinish THEN 0 ELSE status.positionMillis
       /\ duration' = status.durationMillis
       /\ playingId' = IF status.didJustFinish THEN Null ELSE playingId
       /\ ret' = Some(Reported(h, IF status.didJustFinish THEN "Playback finished"
                                  ELSE "Playback status", Some(status)))
  /\ UNCHANGED <<audioMode, handles, loadedSounds, soundUri, tasks, sound, error,
                 playerFrame>>

\* onPlaybackStatusUpdate(status) for { isLoaded: false, error }: a sound that
\* fails while it plays is unloaded by the platform and reports the error.
OnPlaybackStatusError ==
  /\ mounted = "useAudioPlayer"
  /\ \E h \in loadedSounds :
       /\ loadedSounds' = loadedSounds \ {h}
       /\ ret' = Some(Reported(h, "Playback error", Null))
  /\ error' = Some("Playback error")
  /\ UNCHANGED <<audioMode, handles, soundUri, tasks, sound, playingId, isPlaying,
                 position, duration, playerFrame>>

\* A consumer calls pauseSound(), resumeSound() or stopSound(): nothing
\* without a sound, otherwise the native call of the operation is awaited.
SoundCall(op, pc) ==
  /\ mounted = "useAudioPlayer"
  /\ CanSpawn
  /\ IF sound = Null
     THEN /\ ret' = Some(Returned(op, "return", Null))
          /\ UNCHANGED tasks
     ELSE /\ Spawn([op |-> op, pc |-> pc, sound |-> Val(sound)])
          /\ UNCHANGED ret
  /\ UNCHANGED <<audioMode, handles, loadedSounds, soundUri, playerVars, playerFrame>>

PauseSound == SoundCall("pauseSound", "pauseAsync")
ResumeSound == SoundCall("resumeSound", "playAsync")
StopSound == SoundCall("stopSound", "stopAsync")

\* pauseSound: sound.pauseAsync() settles; a rejection is only logged.
PauseSoundAsync(ok) ==
  \E t \in InFlight :
    /\ At(t, "pauseSound", "pauseAsync")
    /\ ok => t.sound \in loadedSounds
    /\ isPlaying' = IF ok THEN FALSE ELSE isPlaying
    /\ ret' = Some(Returned("pauseSound", IF ok THEN "done" ELSE "Error pausing sound", Null))
    /\ Finish(t)
    /\ UNCHANGED <<audioMode, handles, loadedSounds, soundUri, sound, playingId,
                   position, duration, error, playerFrame>>

\* resumeSound: sound.playAsync() settles; a rejection sets the error.
ResumeSoundAsync(ok) ==
  \E t \in InFlight :
    /\ At(t, "resumeSound", "playAsync")
    /\ ok => t.sound \in loadedSounds
    /\ IF ok
       THEN isPlaying' = TRUE /\ UNCHANGED error
       ELSE error' = Some("Resume error") /\ UNCHANGED isPlaying
    /\ ret' = Some(Returned("resumeSound", IF ok THEN "done" ELSE "Error resuming sound", Null))
    /\ Finish(t)
    /\ UNCHANGED <<audioMode, handles, loadedSounds, soundUri, sound, playingId,
                   position, duration, playerFrame>>

\* stopSound: sound.stopAsync() settles; a rejection is only logged.  The
\* sound stays loaded and stays in the state.
StopSoundAsync(ok) ==
  \E t \in InFlight :
    /\ At(t, "stopSound", "stopAsync")
    /\ ok => t.sound \in loadedSounds
    /\ IF ok
       THEN isPlaying' = FALSE /\ playingId' = Null /\ position' = 0
       ELSE UNCHANGED <<isPlaying, playingId, position>>
    /\ ret' = Some(Returned("stopSound", IF ok THEN "done" ELSE "Error stopping sound", Null))
    /\ Finish(t)
    /\ UNCHANGED <<audioMode, handles, loadedSounds, soundUri, sound, duration, error,
                   playerFrame>>

\* The component that uses the hook unmounts: the cleanup of the effect on
\* [sound] calls unloadAsync() on the sound of the last render and does not
\* await it.  Calls in flight go on; what they set in the state of the
\* unmounted hook is seen by nobody.
PlayerUnmount ==
  /\ mounted = "useAudioPlayer"
  /\ CanSpawn
  /\ mounted' = "useAudioPlayer unmounted"
  /\ IF sound # Null
     THEN Spawn([op |-> "cleanup", pc |-> "unloadAsync", sound |-> Val(sound)])
     ELSE UNCHANGED tasks
  /\ UNCHANGED <<now, micPermission, audioMode, fsVars, nativeVars, ret, hookRecVars,
                 svcVars, rsVars, scVars, playerVars, codecVars>>

\* Play requests, overlapping ones included.
PlayerNext ==
  \/ PlaySound
  \/ \E ok \in BOOLEAN :
       \/ PlaySoundGetInfo(ok)
       \/ PlaySoundAudioMode(ok)
       \/ PlaySoundUnload(ok)
       \/ PlaySoundCreate(ok)
       \/ CleanupUnload(ok)

\* A player session: the consumer awaits each command before it issues the
\* next, and the sounds push their statuses at any time.
PlayerSessionNext ==
  \/ Idle /\ PlaySound
  \/ Idle /\ PauseSound
  \/ Idle /\ ResumeSound
  \/ Idle /\ StopSound
  \/ OnPlaybackStatusUpdate
  \/ OnPlaybackStatusError
  \/ PlayerUnmount
  \/ \E ok \in BOOLEAN :
       \/ PlaySoundGetInfo(ok)
       \/ PlaySoundAudioMode(ok)
       \/ PlaySoundUnload(ok)
       \/ PlaySoundCreate(ok)
       \/ CleanupUnload(ok)
       \/ PauseSoundAsync(ok)
       \/ ResumeSoundAsync(ok)
       \/ StopSoundAsync(ok)

InitPlayerSpec ==
  /\ mounted = "useAudioPlayer"
  /\ tasks = MountTask(mounted)
  /\ InitEnv({"granted"}, PlayInitDirs)
  /\ InitHookRec /\ InitSvc /\ InitRs /\ InitSc /\ InitPlayer /\ InitCodec

SpecPlayer == InitPlayerSpec /\ [][PlayerSessionNext]_vars

\* ------------------------------------------------------------------
\* RecordingsScreen over AudioService (getRecordings, playRecording,
\* stopPlayback, deleteRecording)
scFrame ==
  <<mounted, now, micPermission, tempFiles, nativeRecs, hookRecVars, svcRecording,
    rsVars, playerVars, codecVars>>

\* getRecordings returns a list and RecordingsScreen.loadRecordings stores it
\* and clears the error.
GetRecordingsReturn(t, files, outcome) ==
  /\ scRecordings' = files
  /\ scError' = Null
  /\ ret' = Some(Returned("getRecordings", outcome, Null))
  /\ Finish(t)

\* getRecordings, init(): getInfoAsync(recordingsDirectory) settles.
GetRecordingsInitInfo(ok) ==
  \E t \in InFlight :
    /\ At(t, "getRecordings", "initInfo")
    /\ IF ok
       THEN /\ Advance(t, [op |-> "getRecordings",
                           pc |-> IF dirExists THEN "readDirectory" ELSE "initMakeDirectory"])
            /\ UNCHANGED <<scRecordings, scError, ret>>
       ELSE GetRecordingsReturn(t, <<>>, "Failed to get recordings")
    /\ UNCHANGED <<audioMode, dirExists, dir, handles, loadedSounds, soundUri, svcSound,
                   scPlayingId, scIsPlaying, scFrame>>

\* getRecordings, init(): makeDirectoryAsync settles.
GetRecordingsInitMakeDirectory(ok) ==
  \E t \in InFlight :
    /\ At(t, "getRecordings", "initMakeDirectory")
    /\ IF ok
       THEN /\ dirExists' = TRUE
            /\ Advance(t, [op |-> "getRecordings", pc |-> "readDirectory"])
            /\ UNCHANGED <<scRecordings, scError, ret>>
       ELSE /\ GetRecordingsReturn(t, <<>>, "Failed to get recordings")
            /\ UNCHANGED dirExists
    /\ UNCHANGED <<audioMode, dir, handles, loadedSounds, soundUri, svcSound, scPlayingId,
                   scIsPlaying, scFrame>>

\* getRecordings: readDirectoryAsync settles; without .wav files the result is
\* the empty list.
GetRecordingsReadDirectory(ok) ==
  \E t \in InFlight :
    /\ At(t, "getRecordings", "readDirectory")
    /\ IF ok /\ dirExists
       THEN \E files \in Listings(DOMAIN dir) :
              IF Len(WavFiles(files)) = 0
              THEN GetRecordingsReturn(t, <<>>, "done")
              ELSE /\ Advance(t, [op |-> "getRecordings", pc |-> "fileInfo",
                                  files |-> files, wavFiles |-> WavFiles(files)])
                   /\ UNCHANGED <<scRecordings, scError, ret>>
       ELSE GetRecordingsReturn(t, <<>>, "Failed to get recordings")
    /\ UNCHANGED <<audioMode, dirExists, dir, handles, loadedSounds, soundUri, svcSound,
                   scPlayingId, scIsPlaying, scFrame>>

\* getRecordings: Promise.all settles; the names are decoded and sorted.
GetRecordingsFileInfo(ok) ==
  \E t \in InFlight :
    /\ At(t, "getRecordings", "fileInfo")
    /\ IF ok
       THEN \E sorted \in SortOutcomes(SvcClips(t.wavFiles, now)) :
              GetRecordingsReturn(t, sorted, "done")
       ELSE GetRecordingsReturn(t, <<>>, "Failed to get recordings")
    /\ UNCHANGED <<audioMode, dirExists, dir, handles, loadedSounds, soundUri, svcSound,
                   scPlayingId, scIsPlaying, scFrame>>

\* handlePlayPause(item): the item that is playing is stopped (stopPlayback does
\* nothing without this.sound), any other item is played (playRecording first
\* unloads this.sound).
HandlePlayPause ==
  /\ mounted = "RecordingsScreen"
  /\ CanSpawn
  /\ \E i \in 1..Len(scRecordings) :
       LET item == scRecordings[i]
       IN IF scPlayingId = Some(item.id) /\ scIsPlaying
          THEN /\ IF svcSound = Null
                  THEN /\ scIsPlaying' = FALSE
                       /\ ret' = Some(Returned("stopPlayback", "done", Null))
                       /\ UNCHANGED tasks
                  ELSE /\ Spawn([op |-> "handlePlayPause", pc |-> "stopAsync",
                                 sound |-> Val(svcSound)])
                       /\ UNCHANGED <<scIsPlaying, ret>>
               /\ UNCHANGED scError
          ELSE /\ scError' = Null
               /\ Spawn([op |-> "playRecording",
                         pc |-> IF svcSound = Null THEN "getInfo" ELSE "unloadAsync",
                         item |-> item, sound |-> svcSound])
               /\ UNCHANGED <<scIsPlaying, ret>>
  /\ UNCHANGED <<audioMode, dirExists, dir, handles, loadedSounds, soundUri, svcSound,
                 scRecordings, scPlayingId, scFrame>>

\* deleteRecording(uri) up to its first await: stopPlayback when this.sound is
\* set (snd), else getInfoAsync.
DeleteRecordingEntry(item, snd) ==
  IF snd = Null
  THEN [op |-> "handleDeleteRecording", pc |-> "getInfo", item |-> item]
  ELSE [op |-> "handleDeleteRecording", pc |-> "stopAsync", in |-> "deleteRecording",
        item |-> item, sound |-> Val(snd)]

\* stopPlayback returns to its caller; snd is this.sound at that moment.
StopPlaybackReturn(t, snd) ==
  IF t.op = "focusCleanup"
  THEN /\ ret' = Some(Returned("stopPlayback", "done", Null))
       /\ Finish(t)
       /\ UNCHANGED <<scPlayingId, scIsPlaying>>
  ELSE IF t.op = "handlePlayPause"
  THEN /\ scIsPlaying' = FALSE
       /\ ret' = Some(Returned("stopPlayback", "done", Null))
       /\ Finish(t)
       /\ UNCHANGED scPlayingId
  ELSE IF t.in = "handleDeleteRecording"
  THEN /\ scPlayingId' = Null
       /\ scIsPlaying' = FALSE
       /\ Advance(t, DeleteRecordingEntry(t.item, snd))
       /\ UNCHANGED ret
  ELSE /\ Advance(t, [op |-> "handleDeleteRecording", pc |-> "getInfo", item |-> t.item])
       /\ UNCHANGED <<scPlayingId, scIsPlaying, ret>>

\* stopPlayback: this.sound.stopAsync() settles; this.sound is read again for
\* unloadAsync().
StopPlaybackStop(ok) ==
  \E t \in InFlight :
    /\ t.op \in {"handlePlayPause", "handleDeleteRecording", "focusCleanup"}
    /\ t.pc = "stopAsync"
    /\ ok => t.sound \in loadedSounds
    /\ IF ok /\ svcSound # Null
       THEN /\ Advance(t, [t EXCEPT !.pc = "stopUnload", !.sound = Val(svcSound)])
            /\ UNCHANGED <<scPlayingId, scIsPlaying, ret>>
       ELSE StopPlaybackReturn(t, svcSound)
    /\ UNCHANGED <<audioMode, dirExists, dir, handles, loadedSounds, soundUri, svcSound,
                   scRecordings, scError, scFrame>>

\* stopPlayback: unloadAsync() settles; this.sound = null.
StopPlaybackUnload(ok) ==
  \E t \in InFlight :
    /\ t.pc = "stopUnload"
    /\ IF ok
       THEN /\ loadedSounds' = loadedSounds \ {t.sound}
            /\ svcSound' = Null
            /\ StopPlaybackReturn(t, Null)
       ELSE /\ StopPlaybackReturn(t, svcSound)
            /\ UNCHANGED <<loadedSounds, svcSound>>
    /\ UNCHANGED <<audioMode, dirExists, dir, handles, soundUri, scRecordings, scError,
                   scFrame>>

\* playRecording returns and handlePlayPause stores the result.
PlayRecordingReturn(t, success) ==
  /\ IF success
     THEN scPlayingId' = Some(t.item.id) /\ scIsPlaying' = TRUE
     ELSE UNCHANGED <<scPlayingId, scIsPlaying>>
  /\ ret' = Some(Returned("playRecording", IF success THEN "true" ELSE "false", Null))
  /\ Finish(t)

\* playRecording: this.sound.unloadAsync() settles; this.sound = null.
PlayRecordingUnload(ok) ==
  \E t \in InFlight :
    /\ At(t, "playRecording", "unloadAsync")
    /\ IF ok
       THEN /\ loadedSounds' = loadedSounds \ {Val(t.sound)}
            /\ svcSound' = Null
            /\ Advance(t, [t EXCEPT !.pc = "getInfo"])
            /\ UNCHANGED <<scPlayingId, scIsPlaying, ret>>
       ELSE /\ PlayRecordingReturn(t, FALSE)
            /\ UNCHANGED <<loadedSounds, svcSound>>
    /\ UNCHANGED <<audioMode, dirExists, dir, handles, soundUri, scRecordings, scError,
                   scFrame>>

\* playRecording: getInfoAsync(uri) settles; if (!fileInfo.exists) return false.
PlayRecordingGetInfo(ok) ==
  \E t \in InFlight :
    /\ At(t, "playRecording", "getInfo")
    /\ IF ok /\ FileInfo(t.item.fileName).exists
       THEN /\ Advance(t, [t EXCEPT !.pc = "setAudioMode"])
            /\ UNCHANGED <<scPlayingId, scIsPlaying, ret>>
       ELSE PlayRecordingReturn(t, FALSE)
    /\ UNCHANGED <<audioMode, dirExists, dir, handles, loadedSounds, soundUri, svcSound,
                   scRecordings, scError, scFrame>>

\* playRecording: setAudioModeAsync settles.
PlayRecordingAudioMode(ok) ==
  \E t \in InFlight :
    /\ At(t, "playRecording", "setAudioMode")
    /\ IF ok
       THEN /\ audioMode' = "playback"
            /\ Advance(t, [t EXCEPT !.pc = "createAsync"])
            /\ UNCHANGED <<scPlayingId, scIsPlaying, ret>>
       ELSE /\ PlayRecordingReturn(t, FALSE)
            /\ UNCHANGED audioMode
    /\ UNCHANGED <<dirExists, dir, handles, loadedSounds, soundUri, svcSound, scRecordings,
                   scError, scFrame>>

\* playRecording: Audio.Sound.createAsync settles; this.sound = sound.
PlayRecordingCreate(ok) ==
  \E t \in InFlight :
    /\ At(t, "playRecording", "createAsync")
    /\ ok => CanCreateSound(t.item.fileName)
    /\ IF ok
       THEN /\ handles' = handles + 1
            /\ loadedSounds' = loadedSounds \cup {handles + 1}
            /\ soundUri' = WithSound(handles + 1, t.item.fileName)
            /\ svcSound' = Some(handles + 1)
            /\ Advance(t, [t EXCEPT !.pc = "playAsync", !.sound = Some(handles + 1)])
            /\ UNCHANGED <<scPlayingId, scIsPlaying, ret>>
       ELSE /\ PlayRecordingReturn(t, FALSE)
            /\ UNCHANGED <<handles, loadedSounds, soundUri, svcSound>>
    /\ UNCHANGED <<audioMode, dirExists, dir, scRecordings, scError, scFrame>>

\* playRecording: sound.playAsync() settles.
PlayRecordingPlay(ok) ==
  \E t \in InFlight :
    /\ At(t, "playRecording", "playAsync")
    /\ ok => Val(t.sound) \in loadedSounds
    /\ PlayRecordingReturn(t, ok)
    /\ UNCHANGED <<audioMode, dirExists, dir, handles, loadedSounds, soundUri, svcSound,
                   scRecordings, scError, scFrame>>

\* The status callback handlePlayPause passes to playRecording, for a loaded
\* status with didJustFinish (any other status changes nothing).
ScreenStatusUpdate ==
  /\ mounted \in {"RecordingsScreen", "RecordingsScreen blurred"}
  /\ \E h \in loadedSounds : ret' = Some(Reported(h, "Playback finished", Null))
  /\ scIsPlaying' = FALSE
  /\ scPlayingId' = Null
  /\ UNCHANGED <<audioMode, dirExists, dir, handles, loadedSounds, soundUri, svcSound,
                 tasks, scRecordings, scError, scFrame>>

\* The screen loses focus: the cleanup of the focus effect calls
\* AudioService.stopPlayback() without awaiting it and clears the playing
\* state.  The screen stays mounted and the calls in flight go on.
ScreenBlur ==
  /\ mounted = "RecordingsScreen"
  /\ CanSpawn
  /\ mounted' = "RecordingsScreen blurred"
  /\ IF svcSound = Null
     THEN UNCHANGED tasks
     ELSE Spawn([op |-> "focusCleanup", pc |-> "stopAsync", sound |-> Val(svcSound)])
  /\ scPlayingId' = Null
  /\ scIsPlaying' = FALSE
  /\ UNCHANGED <<now, micPermission, audioMode, fsVars, nativeVars, ret, hookRecVars,
                 svcVars, rsVars, scRecordings, scError, playerVars, codecVars>>

\* The Delete button of handleDeleteRecording's alert: the item that is current
\* is stopped first, then deleteRecording(item.uri) is called.
HandleDeleteRecording ==
  /\ mounted = "RecordingsScreen"
  /\ CanSpawn
  /\ \E i \in 1..Len(scRecordings) :
       LET item == scRecordings[i]
       IN IF scPlayingId = Some(item.id)
          THEN IF svcSound = Null
               THEN /\ scPlayingId' = Null
                    /\ scIsPlaying' = FALSE
                    /\ Spawn(DeleteRecordingEntry(item, Null))
               ELSE /\ Spawn([op |-> "handleDeleteRecording", pc |-> "stopAsync",
                              in |-> "handleDeleteRecording", item |-> item,
                              sound |-> Val(svcSound)])
                    /\ UNCHANGED <<scPlayingId, scIsPlaying>>
          ELSE /\ Spawn(DeleteRecordingEntry(item, svcSound))
               /\ UNCHANGED <<scPlayingId, scIsPlaying>>
  /\ UNCHANGED <<audioMode, dirExists, dir, handles, loadedSounds, soundUri, ret, svcSound,
                 scRecordings, scError, scFrame>>

\* deleteRecording lets the rejection through.
SvcDeleteRejects(t, message) ==
  /\ ret' = Some(Returned("deleteRecording", "rejected", Null))
  /\ Finish(t)

\* deleteRecording returns false after the console message, and the handler
\* ends.
SvcDeleteFalse(t, message) ==
  /\ ret' = Some(Returned("deleteRecording", message, Null))
  /\ Finish(t)

\* deleteRecording: getInfoAsync(uri) settles; if (!fileInfo.exists) warns and
\* returns false.
SvcDeleteGetInfo(ok) ==
  \E t \in InFlight :
    /\ At(t, "handleDeleteRecording", "getInfo")
    /\ IF ok /\ FileInfo(t.item.fileName).exists
       THEN /\ Advance(t, [t EXCEPT !.pc = "deleteAsync"])
            /\ UNCHANGED ret
       ELSE SvcDeleteFalse(t, IF ok THEN "File does not exist, nothing to delete"
                                    ELSE "Failed to delete recording")
    /\ UNCHANGED <<audioMode, dirExists, dir, handles, loadedSounds, soundUri, svcSound, scVars,
                   scFrame>>

\* deleteRecording: deleteAsync(uri) settles (it rejects for a file that is
\* gone); on true the handler calls loadRecordings().
SvcDeleteAsync(ok) ==
  \E t \in InFlight :
    /\ At(t, "handleDeleteRecording", "deleteAsync")
    /\ IF ok /\ t.item.fileName \in DOMAIN dir
       THEN /\ dir' = Without(dir, t.item.fileName)
            /\ ret' = Some(Returned("deleteRecording", "true", Null))
            /\ Advance(t, [op |-> "getRecordings", pc |-> "initInfo"])
       ELSE /\ SvcDeleteFalse(t, "Failed to delete recording")
            /\ UNCHANGED dir
    /\ UNCHANGED <<audioMode, dirExists, handles, loadedSounds, soundUri, svcSound, scVars,
                   scFrame>>

\* The list is refreshed and items are deleted.
ScreenRefreshNext ==
  \/ HandleDeleteRecording
  \/ \E ok \in BOOLEAN :
       \/ GetRecordingsInitInfo(ok)
       \/ GetRecordingsInitMakeDirectory(ok)
       \/ GetRecordingsReadDirectory(ok)
       \/ GetRecordingsFileInfo(ok)
       \/ SvcDeleteGetInfo(ok)
       \/ SvcDeleteAsync(ok)

\* Items are played and stopped as well.
ScreenPlayNext ==
  \/ HandlePlayPause
  \/ ScreenStatusUpdate
  \/ ScreenBlur
  \/ \E ok \in BOOLEAN :
       \/ StopPlaybackStop(ok)
       \/ StopPlaybackUnload(ok)
       \/ PlayRecordingUnload(ok)
       \/ PlayRecordingGetInfo(ok)
       \/ PlayRecordingAudioMode(ok)
       \/ PlayRecordingCreate(ok)
       \/ PlayRecordingPlay(ok)

\* The registry: the hook's loadRecordings / deleteRecording, or
\* RecordingsScreen refreshing and deleting.
InitRefresh ==
  /\ mounted \in {"useAudioRecorder", "RecordingsScreen"}
  /\ tasks = MountTask(mounted)
  /\ InitEnv({"granted"}, RefreshInitDirs)
  /\ InitHookRec /\ InitSvc /\ InitRs /\ InitSc /\ InitPlayer /\ InitCodec

NextRefresh == ClockTick \/ HookLibraryNext \/ ScreenRefreshNext

SpecRefresh == InitRefresh /\ [][NextRefresh]_vars

\* Playback: the hook's player, or RecordingsScreen with all its handlers.
InitPlay ==
  /\ mounted \in {"useAudioPlayer", "RecordingsScreen"}
  /\ tasks = MountTask(mounted)
  /\ InitEnv({"granted"}, PlayInitDirs)
  /\ InitHookRec /\ InitSvc /\ InitRs /\ InitSc /\ InitPlayer /\ InitCodec

NextPlay == PlayerNext \/ ScreenRefreshNext \/ ScreenPlayNext

SpecPlay == InitPlay /\ [][NextPlay]_vars


\* ------------------------------------------------------------------ claims
HasTaskAt(op, pc) == \E t \in InFlight : t.op = op /\ t.pc = pc
\* A call of kind op gets past its guards in this step and runs to an await.
Accepted(op) ==
  \E t \in BagToSet(tasks') : t.op = op /\ tasks' = tasks (+) SetToBag({t})
\* A call of kind op arrives in this step at the await of the native call pc:
\* it makes that call.
Reaches(op, pc) ==
  \E t \in BagToSet(tasks') :
    t.op = op /\ t.pc = pc /\ CopiesIn(t, tasks') > CopiesIn(t, tasks)
\* A call of kind op in flight completes in this step.
Completes(op) ==
  \E t \in InFlight : t.op = op /\ tasks' = tasks (-) SetToBag({t})

\* C1: a startRecording issued while a recording is Active (a handle is held)
\* is rejected: the call goes no further, so it neither calls
\* Audio.Recording.createAsync again nor replaces the held handle; for the
\* hook and for AudioService.
C1_SecondStartRejected ==
  [][/\ (isRecording /\ recording # Null) =>
          ~Accepted("startRecording") /\ ~Reaches("startRecording", "createAsync")
     /\ svcRecording # Null =>
          ~Accepted("svcStart") /\ ~Reaches("svcStart", "createAsync")]_vars

\* C3: every stopRecording call that completes leaves the recorder Idle: not
\* recording and the stored handle null; for the hook and for AudioService.
C3_StopLeavesIdle ==
  [][/\ Completes("stopRecording") => (~isRecording' /\ recording' = Null)
     /\ Completes("svcStop") => svcRecording' = Null]_vars

\* C4: Audio.Recording.createAsync is never called by startRecording unless
\* the microphone permission is granted.
C4_CreateOnlyWhenGranted ==
  (HasTaskAt("startRecording", "createAsync") \/ HasTaskAt("svcStart", "createAsync"))
     => micPermission = "granted"

\* The temporary file of the capture exists and has data.
GoodCapture(h) == tempFiles[h].exists /\ tempFiles[h].size > 0
\* The call t takes this step.
StepsFrom(t) == CopiesIn(t, tasks') < CopiesIn(t, tasks)
\* The call t takes this step and ends with it.
EndsCall(t) == tasks' = tasks (-) SetToBag({t})

\* C5: a capture whose temporary file is missing or empty is never persisted
\* or registered: the directory only gains a file copied from a capture that
\* exists and has data, only such a capture yields a returned descriptor, and
\* a stop that finds its capture missing or empty ends there, with the
\* directory and the registry as they were.
C5_NoEmptyCapturePersisted ==
  [][/\ dir' # dir =>
          \E t \in InFlight :
             \/ At(t, "stopRecording", "copy") /\ GoodCapture(t.recording)
             \/ At(t, "svcStop", "copy") /\ GoodCapture(t.uri)
     /\ (ret' # ret /\ ret' # Null /\ Val(ret').clip # Null) =>
          \E t \in InFlight : At(t, "svcStop", "verify") /\ GoodCapture(t.uri)
     /\ \A n \in DOMAIN dir' : dir'[n] > 0
     /\ \A t \in InFlight :
          ( /\ StepsFrom(t)
            /\ \/ At(t, "stopRecording", "getInfo") /\ ~GoodCapture(t.recording)
               \/ At(t, "svcStop", "getInfo") /\ ~GoodCapture(t.uri) )
          => /\ EndsCall(t)
             /\ dir' = dir /\ recordings' = recordings
             /\ Val(ret').clip = Null]_vars

\* A stop found its capture missing or empty and has returned; nothing was
\* copied for it.
C5_Witness ==
  /\ Idle
  /\ ret # Null
  /\ Val(ret).outcome = "Recording file is missing or empty"
  /\ \E h \in DOMAIN tempFiles : ~GoodCapture(h)
  /\ DOMAIN dir = {}

\* ------------------------------------------------------------------
\* The filename codec applied to drawn inputs
CodecSegments == {<<>>, <<"7">>, <<"1", "2">>, <<"a">>}

\* The names of one to three segments joined by '_', with the extension.
CodecNames ==
  {s \o WavExt : s \in CodecSegments}
    \cup {s1 \o <<Delim>> \o s2 \o WavExt : s1, s2 \in CodecSegments}
    \cup {s1 \o <<Delim>> \o s2 \o <<Delim>> \o s3 \o WavExt :
             s1, s2, s3 \in CodecSegments}

InitCodecInputs ==
  \/ /\ codecFields \in {Some([id |-> id, timestamp |-> t, duration |-> d]) :
                            id \in CodecSegments, t \in 0..MaxField, d \in 0..MaxField}
     /\ codecName = Null
  \/ /\ codecFields = Null
     /\ codecName \in {Some(n) : n \in CodecNames}

InitCodecSpec ==
  /\ mounted = "codec"
  /\ tasks = EmptyBag
  /\ now = T0
  /\ micPermission = "granted"
  /\ audioMode = "default"
  /\ dir = DirOf({})
  /\ dirExists = TRUE
  /\ handles = 0 /\ nativeRecs = {} /\ loadedSounds = {} /\ soundUri = <<>> /\ tempFiles = <<>>
  /\ ret = Null
  /\ InitHookRec /\ InitSvc /\ InitRs /\ InitSc /\ InitPlayer
  /\ InitCodecInputs
  /\ codecClip = Null

notCodec ==
  <<mounted, micPermission, audioMode, fsVars, nativeVars, tasks, ret, hookRecVars,
    svcVars, rsVars, scVars, playerVars>>

\* stopRecording builds the name of the drawn fields.
EncodeFileName ==
  /\ mounted = "codec"
  /\ codecFields # Null /\ codecName = Null
  /\ codecName' = Some(HookFileName(Val(codecFields).id, Val(codecFields).timestamp,
                                    Val(codecFields).duration))
  /\ UNCHANGED <<now, codecFields, codecClip, notCodec>>

\* loadRecordings decodes the name.
HookDecodeName ==
  /\ mounted = "codec"
  /\ codecName # Null /\ codecClip = Null
  /\ codecClip' = Some([by |-> "useAudioRecorder", at |-> now,
                        clip |-> HookDecode(Val(codecName), now)])
  /\ UNCHANGED <<now, codecFields, codecName, notCodec>>

\* getRecordings decodes the name.
SvcDecodeName ==
  /\ mounted = "codec"
  /\ codecName # Null /\ codecClip = Null
  /\ codecClip' = Some([by |-> "AudioService", at |-> now,
                        clip |-> SvcDecode(Val(codecName), now)])
  /\ UNCHANGED <<now, codecFields, codecName, notCodec>>

NextCodec == ClockTick \/ EncodeFileName \/ HookDecodeName \/ SvcDecodeName

SpecCodec == InitCodecSpec /\ [][NextCodec]_vars

\* C6: decoding the name that stopRecording builds from an id without '_' and
\* non-negative integers t and d gives back exactly id, createdAt = t and
\* duration = d.
C6_FileNameRoundTrip ==
  (codecFields # Null /\ codecClip # Null /\ Val(codecClip).by = "useAudioRecorder")
     => /\ Val(codecClip).clip.id = Val(codecFields).id
        /\ Val(codecClip).clip.createdAt = Num(Val(codecFields).timestamp)
        /\ Val(codecClip).clip.duration = Num(Val(codecFields).duration)

\* The name without its extension, split at '_'.
StemParts(name) == Split(SubSeq(name, 1, Len(name) - Len(WavExt)), Delim)
Numeric(s) == Len(s) > 0 /\ AllDigits(s)
\* A parse failure: the timestamp segment is missing or not a number, or there
\* is a duration segment that is not a number.
ParseFailure(name) ==
  LET parts == StemParts(name)
  IN \/ Len(parts) < 2
     \/ ~Numeric(parts[2])
     \/ Len(parts) > 2 /\ ~Numeric(parts[3])

\* C7: on any parse failure the decoded clip falls back to id = the whole file
\* name, createdAt = the current time and duration = 0, in the hook and in
\* AudioService.
C7_ParseFailureFallsBack ==
  (codecClip # Null /\ ParseFailure(Val(codecName)))
     => /\ Val(codecClip).clip.id = Val(codecName)
        /\ Val(codecClip).clip.createdAt = Num(Val(codecClip).at)
        /\ Val(codecClip).clip.duration = Num(0)

\* ------------------------------------------------------------------
\* The registry after a refresh
WavNames(d) == {n \in DOMAIN d : EndsWith(n, WavExt)}
Range(s) == {s[i] : i \in 1..Len(s)}
\* The list has exactly one entry per .wav file of the directory.
OnePerFile(list, d) ==
  /\ Len(list) = Cardinality(WavNames(d))
  /\ {list[i].fileName : i \in 1..Len(list)} = WavNames(d)

\* A refresh whose scan succeeded takes its last step: the list is stored.
\* Nothing changed the directory since it was listed.
HookRefreshDone ==
  \E t \in InFlight :
    /\ t.op = "loadRecordings" /\ EndsCall(t)
    /\ Val(ret') = Returned("loadRecordings", "done", Null)
    /\ t.pc = "fileInfo" => Range(t.files) = DOMAIN dir
SvcRefreshDone ==
  \E t \in InFlight :
    /\ t.op = "getRecordings" /\ EndsCall(t)
    /\ Val(ret') = Returned("getRecordings", "done", Null)
    /\ t.pc = "fileInfo" => Range(t.files) = DOMAIN dir

\* C8: when a refresh completes and no file operation came between its
\* listing and its end, the registry holds exactly one Clip per file of the
\* directory whose name ends in '.wav', whatever the list held before: no
\* unparseable name is dropped and no entry lacks a file.
C8_RefreshOnePerWavFile ==
  [][/\ HookRefreshDone => OnePerFile(recordings', dir')
     /\ SvcRefreshDone => OnePerFile(scRecordings', dir')]_vars

\* A refresh has replaced a list that an earlier refresh and a delete left:
\* the file with the unparseable name is listed, the deleted one is not.
C8_Witness ==
  /\ Idle
  /\ DOMAIN dir = {GarbageWav, NotesTxt}
  /\ ret = Some(Returned("loadRecordings", "done", Null))
  /\ Len(recordings) = 1 /\ recordings[1].fileName = GarbageWav

\* a.createdAt >= b.createdAt
NotBefore(a, b) == ~a.createdAt.nan /\ ~b.createdAt.nan /\ a.createdAt.val >= b.createdAt.val
SortedDescending(list) == \A i \in 1..(Len(list) - 1) : NotBefore(list[i], list[i + 1])

\* C9: after every refresh the registry is sorted by createdAt descending:
\* createdAt[i] >= createdAt[i+1] for every adjacent pair.
C9_RefreshSortedDescending ==
  [][/\ HookRefreshDone => SortedDescending(recordings')
     /\ SvcRefreshDone => SortedDescending(scRecordings')]_vars

\* ------------------------------------------------------------------
\* Playback
\* C2: at most one Audio.Sound is loaded at any time, under every interleaving
\* of play requests.
C2_AtMostOneSoundLoaded == Cardinality(loadedSounds) <= 1

BadLocator(fileName) == ~FileInfo(fileName).exists \/ FileInfo(fileName).size = 0

\* C10: a play request whose existence check settles for a file that is
\* missing or empty ends there: it goes on to no load, an error is set, and
\* the current clip id and the playing flag stay as they were.
C10_BadLocatorNotLoaded ==
  [][\A t \in InFlight :
       /\ (At(t, "playSound", "getInfo") /\ BadLocator(t.recording.fileName) /\ StepsFrom(t))
            => /\ EndsCall(t)
               /\ error' # Null
               /\ playingId' = playingId /\ isPlaying' = isPlaying
       /\ (At(t, "playRecording", "getInfo") /\ BadLocator(t.item.fileName) /\ StepsFrom(t))
            => /\ EndsCall(t)
               /\ scError' # Null
               /\ scPlayingId' = scPlayingId /\ scIsPlaying' = scIsPlaying]_vars

\* C11: in no reachable state has a file been deleted while a sound created
\* from it is still loaded: deleting the clip that is playing stops and
\* unloads its sound before the file goes.
C11_NoDeleteWhileLoaded ==
  \A h \in loadedSounds : soundUri[h] \in DOMAIN dir

\* ------------------------------------------------------------------
\* The player session
\* A player operation fails in this step: a native call of playSound,
\* pauseSound or resumeSound rejects, or a status update carries an error.
PlayerFailure ==
  /\ ret' # Null
  /\ \/ \E t \in InFlight :
          /\ EndsCall(t)
          /\ t.op \in {"playSound", "pauseSound", "resumeSound"}
          /\ Val(ret').outcome \in {"rejected", "Error playing sound",
                                    "Error pausing sound", "Error resuming sound"}
     \/ /\ tasks' = tasks
        /\ Val(ret') = Returned("onPlaybackStatusUpdate", "Playback error", Null)
        /\ loadedSounds' # loadedSounds

\* C12: any failure during load, play, pause or resume in the player leaves
\* an error message set, the player not playing and playingId null.
C12_FailureSetsErrorState ==
  [][PlayerFailure => (error' # Null /\ ~isPlaying' /\ playingId' = Null)]_vars

\* The session states of the hook: a clip plays, or it was paused.
Playing == sound # Null /\ isPlaying
Paused == sound # Null /\ ~isPlaying /\ playingId # Null

\* C14: pauseSound makes its native call only when the player is Playing and
\* resumeSound only when it is Paused; from any other state the call issues
\* no native call and leaves isPlaying, playingId and position as they were.
C14_PauseResumeOnlyInState ==
  [][/\ Accepted("pauseSound") => Playing
     /\ Accepted("resumeSound") => Paused
     /\ \A t \in InFlight :
          (EndsCall(t) /\ t.op = "pauseSound" /\ ~Playing) \/
          (EndsCall(t) /\ t.op = "resumeSound" /\ ~Paused)
             => <<isPlaying', playingId', position'>> = <<isPlaying, playingId, position>>]_vars

\* C15: every stop that completes has released the native sound (it is
\* unloaded and no longer held), reset position to 0 and cleared the current
\* clip id; for stopSound of the hook and for stopPlayback of AudioService
\* called by handlePlayPause.
C15_StopReleasesSound ==
  [][\A t \in InFlight :
       /\ (t.op = "stopSound" /\ EndsCall(t) /\ Val(ret').outcome = "done")
            => /\ t.sound \notin loadedSounds'
               /\ sound' = Null
               /\ position' = 0
               /\ playingId' = Null
       /\ (t.op = "handlePlayPause" /\ EndsCall(t))
            => /\ t.sound \notin loadedSounds'
               /\ svcSound' = Null
               /\ scPlayingId' = Null]_vars

\* The step is a status update that reports the natural end of the media.
FinishedStatus ==
  /\ tasks' = tasks
  /\ ret' # Null
  /\ Val(ret').op = "onPlaybackStatusUpdate"
  /\ Val(ret').outcome = "Playback finished"

\* C16: a status update with didJustFinish leaves the player not playing,
\* with playingId null and position 0, as an explicit stop does, whatever
\* isPlaying and positionMillis the same status carried; in the hook and in
\* the callback of RecordingsScreen (which keeps no position).
C16_FinishEndsSession ==
  [][FinishedStatus =>
       IF mounted = "useAudioPlayer"
       THEN ~isPlaying' /\ playingId' = Null /\ position' = 0
       ELSE ~scIsPlaying' /\ scPlayingId' = Null]_vars

\* A clip was playing and its sound reported the end of the media in a status
\* that still said isPlaying, at the last position: the session is over.
C16_Witness ==
  /\ mounted = "useAudioPlayer"
  /\ sound # Null
  /\ ret = Some(Reported(Val(sound), "Playback finished",
                         Some([isLoaded |-> TRUE, isPlaying |-> TRUE,
                               positionMillis |-> MaxPosition,
                               durationMillis |-> MaxPosition,
                               didJustFinish |-> TRUE])))
  /\ ~isPlaying /\ playingId = Null /\ position = 0 /\ duration = MaxPosition

\* ------------------------------------------------------------------
\* Failures of native calls
\* C13: no operation lets a failing native call escape as a rejected promise
\* that nothing handles: no call ever ends "rejected".
C13_NoUncaughtRejection ==
  ret # Null => Val(ret).outcome # "rejected"

\* A delete call takes the step that meets its file: the getInfoAsync or the
\* deleteAsync of AudioService.deleteRecording, the deleteAsync of the hook.
MeetsFile(t) ==
  /\ StepsFrom(t)
  /\ \/ t.op = "handleDeleteRecording" /\ t.pc \in {"getInfo", "deleteAsync"}
     \/ At(t, "deleteRecording", "deleteAsync")
DeletedFile(t) ==
  IF t.op = "deleteRecording" THEN t.recordingToDelete.fileName ELSE t.item.fileName

\* C17: a delete that finds the backing file absent is a reported no-op: the
\* call ends there without rejecting, a console message reports that nothing
\* was deleted (AudioService returns false), and the directory is as it was.
C17_DeleteAbsentIsNoOp ==
  [][\A t \in InFlight :
       (MeetsFile(t) /\ DeletedFile(t) \notin DOMAIN dir)
          => /\ EndsCall(t)
             /\ Val(ret').op = "deleteRecording"
             /\ Val(ret').outcome \in {"File does not exist, nothing to delete",
                                       "Failed to delete recording"}
             /\ dir' = dir /\ dirExists' = dirExists]_vars

\* AudioService.deleteRecording found the file of a listed item gone (another
\* delete of the same item removed it first) and returned false.
C17_Witness ==
  /\ mounted = "RecordingsScreen"
  /\ ret = Some(Returned("deleteRecording", "File does not exist, nothing to delete", Null))
  /\ DOMAIN dir = {GarbageWav, NotesTxt}

\* ------------------------------------------------------------------
\* The duration in the file name
\* The stopRecording call t builds the file name in this step and goes on as u.
NamesFile(t, u) ==
  /\ At(t, "stopRecording", "getInfo")
  /\ u.op = "stopRecording" /\ u.pc = "ensureDirInfo"
  /\ tasks' = (tasks (-) SetToBag({t})) (+) SetToBag({u})

\* C18: the duration that decoding recovers from the file name of a stopped
\* recording is the rounded elapsed time that stopRecording took from the
\* 100 ms interval (recordingDuration, the interval's last reading of
\* Date.now() - startTime, at most one period behind the clock).
C18_DurationInFileName ==
  [][\A t \in InFlight : \A u \in BagToSet(tasks') :
       NamesFile(t, u) =>
          HookDecode(u.fileName, now').duration = Num(MathRound(t.duration))]_vars

\* ------------------------------------------------------------------
\* Clip ids
UniqueIds(list) == \A i, j \in 1..Len(list) : list[i].id = list[j].id => i = j

\* C19: after any refresh no two entries of the registry have the same id,
\* whichever files the hook and AudioService wrote into the directory.
C19_UniqueIdsAfterRefresh ==
  [][/\ HookRefreshDone => UniqueIds(recordings')
     /\ SvcRefreshDone => UniqueIds(scRecordings')]_vars

\* ------------------------------------------------------------------
\* A start that fails
\* The start call t ends in this step without a native recording: the
\* permission is denied, or setAudioModeAsync, init() or createAsync rejected.
StartFails(t) ==
  /\ t.op \in {"startRecording", "svcStart"}
  /\ EndsCall(t)
  /\ handles' = handles
\* startRecording returns at once on a known denial.
StartDenied ==
  /\ mounted = "useAudioRecorder"
  /\ permissionResponse # Null /\ ~Val(permissionResponse).granted
  /\ ret' = Some(Returned("startRecording", "No recording permission", Null))
  /\ ret' # ret
RecorderUnchanged ==
  /\ recording' = recording /\ isRecording' = isRecording /\ startTime' = startTime
  /\ svcRecording' = svcRecording /\ rsIsRecording' = rsIsRecording
RecorderIdle ==
  /\ recording = Null /\ ~isRecording /\ startTime = Null
  /\ svcRecording = Null /\ ~rsIsRecording

\* C20: a startRecording that fails leaves the recorder as it was, and Idle:
\* no handle stored, the recording flags false, startTime null; and
\* AudioService.startRecording returns false.
C20_FailedStartLeavesIdle ==
  [][/\ \A t \in InFlight :
          StartFails(t) =>
             /\ RecorderUnchanged
             /\ RecorderIdle
             /\ t.op = "svcStart" =>
                  Val(ret') = Returned("AudioService.startRecording", "false", Null)
     /\ StartDenied => (RecorderUnchanged /\ RecorderIdle)]_vars

\* ------------------------------------------------------------------
\* Teardown of the player
OwnerGone == mounted \in {"useAudioPlayer unmounted", "RecordingsScreen blurred"}

\* C21: when the owner of the player has gone away (the hook unmounted, the
\* screen lost focus) and every call in flight has completed, no sound is
\* loaded, however the teardown interleaved with a play request.
C21_TeardownDestroysSession == (OwnerGone /\ Idle) => loadedSounds = {}

\* ------------------------------------------------------------------
\* The refresh at the end of stopRecording
Refreshing(t) ==
  t.op = "stopRecording" /\ t.pc \in {"dirInfo", "makeDirectory", "readDirectory", "fileInfo"}
\* stopRecording completes in this step with every native call resolved.
StopSucceeds(t) ==
  /\ t.op = "stopRecording" /\ EndsCall(t)
  /\ Val(ret') = Returned("stopRecording", "done", Null)

\* C22: when a stopRecording whose calls all resolved completes, the registry
\* has been replaced by a scan of the directory that lists the new file and
\* holds a Clip for it; the file was copied before that scan began, and the
\* handle is cleared only in the step that stores the scan.
C22_StopRefreshesRegistry ==
  [][\A t \in InFlight :
       /\ Refreshing(t) => t.fileName \in DOMAIN dir
       /\ StopSucceeds(t) =>
            /\ t.pc = "fileInfo"
            /\ \E i \in 1..Len(t.wavFiles) : t.wavFiles[i] = t.fileName
            /\ \E i \in 1..Len(recordings') : recordings'[i].fileName = t.fileName
            /\ recording' = Null
       /\ (t.op = "stopRecording" /\ StepsFrom(t) /\ ~EndsCall(t) /\ recording # Null)
            => recording' = recording]_vars

\* A stop has completed: a file was added to the directory, the registry
\* lists it and the handle is cleared.
C22_Witness ==
  /\ Idle
  /\ ret = Some(Returned("stopRecording", "done", Null))
  /\ recording = Null
  /\ \E i \in 1..Len(recordings) :
       /\ recordings[i].fileName \in DOMAIN dir
       /\ recordings[i].fileName # HookFileName(<<"7">>, 7, 1)

\* ------------------------------------------------------------------
\* The timestamp of a clip
\* AudioService.stopRecording returns a descriptor in this step.
ReturnsClip ==
  /\ ret' # ret /\ ret' # Null
  /\ Val(ret').op = "AudioService.stopRecording" /\ Val(ret').clip # Null

\* C23: the id of every clip stopRecording produces is the decimal string of
\* the millisecond value of its createdAt: the first two segments of the name
\* the hook builds are equal, and the descriptor AudioService returns has
\* id = createdAt.getTime().toString().
C23_IdIsCreatedAt ==
  [][/\ \A t \in InFlight : \A u \in BagToSet(tasks') :
          NamesFile(t, u) =>
             LET parts == Split(u.fileName, Delim) IN parts[1] = parts[2]
     /\ ReturnsClip =>
          LET clip == Val(Val(ret').clip)
          IN ~clip.createdAt.nan /\ clip.id = NumToString(clip.createdAt.val)]_vars

\* ------------------------------------------------------------------
\* The elapsed-time timers
\* C24: the elapsed value moves only by a tick of a mounted component that is
\* recording, and it is 0 whenever the recording flag is false: once
\* isRecording is false or the component is unmounted no tick updates
\* recordingDuration (useAudioRecorder) or seconds (RecordingTimer).
C24_TimerOnlyWhileRecording ==
  [][/\ (recordingDuration' # recordingDuration /\ recordingDuration' # 0)
          => (mounted = "useAudioRecorder" /\ isRecording /\ startTime # Null)
     /\ seconds' > seconds => (mounted = "RecordScreen" /\ rsIsRecording)
     /\ ~isRecording' => recordingDuration' = 0
     /\ ~rsIsRecording' => seconds' = 0]_vars

\* A recording whose elapsed time had been ticked up was stopped and saved,
\* and the elapsed value is back at 0.
C24_Witness ==
  /\ ~isRecording /\ recordingDuration = 0
  /\ ret = Some(Returned("stopRecording", "done", Null))
  /\ \E n \in DOMAIN dir :
       /\ n # HookFileName(<<"7">>, 7, 1)
       /\ Split(n, Delim)[3] # <<"0">> \o WavExt

\* ------------------------------------------------------------------
\* The start of playback
\* The playSound call t loads its sound in this step.
Loads(t) ==
  /\ At(t, "playSound", "createAsync")
  /\ StepsFrom(t)
  /\ handles' = handles + 1

\* C25: when playSound(clip), called with no other call in flight, has loaded
\* its sound, the hook reports playback at once (isPlaying, playingId =
\* clip.id) and the new sound is the only one loaded: the one loaded before
\* has been unloaded.
C25_PlayBeginsAtLoad ==
  [][\A t \in InFlight :
       (Loads(t) /\ mounted = "useAudioPlayer")
          => /\ isPlaying'
             /\ playingId' = Some(t.recording.id)
             /\ sound' = Some(handles')
             /\ loadedSounds' = {handles'}]_vars

\* A second clip was played after the first: its sound is the loaded one.
C25_Witness ==
  /\ mounted = "useAudioPlayer" /\ Idle
  /\ ret = Some(Returned("playSound", "done", Null))
  /\ sound = Some(2) /\ loadedSounds = {2}
  /\ isPlaying /\ playingId # Null

\* ------------------------------------------------------------------
\* The handle of the active recording
\* The hook with a recording active: the state a startRecording that succeeded
\* leaves (its handle, made before the handles counted here, is 0), after
\* the mount effect found the directory empty or could not create it.
InitActive ==
  /\ mounted = "useAudioRecorder"
  /\ tasks = EmptyBag
  /\ now = T0
  /\ micPermission = "granted"
  /\ audioMode = "record"
  /\ dir = DirOf({})
  /\ dirExists \in BOOLEAN
  /\ handles = 0
  /\ nativeRecs = {0}
  /\ loadedSounds = {}
  /\ soundUri = <<>>
  /\ tempFiles \in {[h \in {0} |-> info] : info \in TempInfos}
  /\ ret = Some(Returned("startRecording", "done", Null))
  /\ recording = Some(0)
  /\ recordings = <<>>
  /\ isRecording = TRUE
  /\ permissionResponse = Some([granted |-> TRUE])
  /\ recordingDuration = 0
  /\ startTime = Some(T0)
  /\ InitSvc /\ InitRs /\ InitSc /\ InitPlayer /\ InitCodec

\* Stops and starts of the hook from there; the refresh at the end of a stop
\* finds the directory the copy was made into.
RestartNext ==
  \/ StartRecording
  \/ StopRecording
  \/ \E ok \in BOOLEAN :
       \/ StartAudioMode(ok)
       \/ StartCreate(ok)
       \/ StopAndUnload(ok)
       \/ StopGetInfo(ok)
       \/ StopEnsureDirInfo(ok)
       \/ StopMakeDirectory(ok)
       \/ StopCopy(ok)
       \/ StopVerify(ok)
       \/ LoadDirInfo(ok)
       \/ LoadReadDirectory(ok)
       \/ LoadFileInfo(ok)

SpecRestart == InitActive /\ [][RestartNext]_vars

\* C26: in useAudioRecorder, whenever isRecording is true the stored handle is
\* not null and is the handle of a recording that is natively active, under
\* every interleaving of startRecording and stopRecording.
C26_RecordingHasHandle ==
  isRecording => (recording # Null /\ Val(recording) \in nativeRecs)

\* ------------------------------------------------------------------
\* RecordScreen and AudioService
NoRecordCall == \A t \in InFlight : t.op \notin {"svcStart", "svcStop"}

\* C27: in RecordScreen, whenever no start or stop call is in flight the
\* screen's isRecording is true exactly when AudioService holds a recording
\* handle, under every interleaving of presses of the record button.
C27_ScreenFlagMatchesService ==
  (mounted = "RecordScreen" /\ NoRecordCall) => (rsIsRecording <=> svcRecording # Null)

\* ------------------------------------------------------------------
\* The registry under overlapping deletes and refreshes
\* The call that completed last is a refresh or a delete that succeeded.
LibraryCallDone ==
  /\ ret # Null
  /\ Val(ret).op \in {"loadRecordings", "deleteRecording"}
  /\ Val(ret).outcome = "done"

\* C28: in useAudioRecorder, once every deleteRecording and loadRecordings
\* call in flight has completed (the last of them with success), the registry
\* holds exactly one entry per .wav file of the directory: no entry for a file
\* that is gone, no stale list written over a newer one.
C28_RegistryMatchesDirectory ==
  (mounted = "useAudioRecorder" /\ Idle /\ LibraryCallDone) => OnePerFile(recordings, dir)

\* ------------------------------------------------------------------
\* The playing flag and the current clip
\* C29: in useAudioPlayer, in every reachable state isPlaying implies that
\* playingId is not null, for every sequence of play, pause, resume, stop
\* and status callbacks.
C29_PlayingHasClip == (mounted = "useAudioPlayer" /\ isPlaying) => playingId # Null

\* ------------------------------------------------------------------
\* Statuses of a displaced sound
\* The step is the status callback of sound h.
StatusFrom(h) ==
  /\ tasks' = tasks /\ mounted' = mounted
  /\ ret' # Null /\ ret' # ret
  /\ Val(ret').op = "onPlaybackStatusUpdate"
  /\ Val(ret').sound = h
\* Sound h is not the sound of the current session: a later play request has
\* put another in its place, or the session has let go of it.
Displaced(h) ==
  IF mounted = "useAudioPlayer" THEN sound # Some(h) ELSE svcSound # Some(h)

\* C30: the status callback of a displaced sound changes nothing in the
\* current session: not playingId, not isPlaying, not the position.
C30_DisplacedStatusIgnored ==
  [][\A h \in DOMAIN soundUri :
       (StatusFrom(h) /\ Displaced(h))
          => UNCHANGED <<playingId, isPlaying, position, scPlayingId, scIsPlaying>>]_vars

\* ------------------------------------------------------------------
\* Playing while AudioService records
\* RecordScreen has started a recording through AudioService (its handle 0 is
\* capturing, setAudioModeAsync({allowsRecordingIOS: true}) has run) and has no
\* effect that stops it; the Recordings tab is then opened and gets the focus.
InitCapture ==
  /\ mounted = "RecordingsScreen"
  /\ tasks = MountTask(mounted)
  /\ now = T0
  /\ micPermission = "granted"
  /\ audioMode = "record"
  /\ dir \in PlayInitDirs
  /\ dirExists = TRUE
  /\ handles = 0
  /\ nativeRecs = {0}
  /\ loadedSounds = {}
  /\ soundUri = <<>>
  /\ tempFiles \in {[h \in {0} |-> info] : info \in TempInfos}
  /\ ret = Some(Returned("AudioService.startRecording", "true", Null))
  /\ svcRecording = Some(0) /\ svcSound = Null
  /\ rsIsRecording = TRUE /\ permissionGranted = TRUE /\ seconds = 0
  /\ InitHookRec /\ InitSc /\ InitPlayer /\ InitCodec

\* RecordingsScreen loads its list and plays from it; init() finds the
\* directory that startRecording has made.
NextCapture ==
  \/ ScreenPlayNext
  \/ \E ok \in BOOLEAN :
       \/ GetRecordingsInitInfo(ok)
       \/ GetRecordingsReadDirectory(ok)
       \/ GetRecordingsFileInfo(ok)

SpecCapture == InitCapture /\ [][NextCapture]_vars

\* A recorder session holds a native recording that is capturing.
RecordingActive ==
  \/ svcRecording # Null /\ Val(svcRecording) \in nativeRecs
  \/ recording # Null /\ Val(recording) \in nativeRecs

\* C31: while a recording is active the audio mode stays the capture mode
\* (allowsRecordingIOS true); no player operation sets the playback mode.
C31_CaptureModeWhileRecording == RecordingActive => audioMode = "record"

====
